---- MODULE Spec2Model ----
(***************************************************************************)
(* Sentinel: the agent-pipeline runtime.                                   *)
(*                                                                         *)
(* One run of IncidentAnalyzer on one alert, either through analyze (the   *)
(* sequential path, under asyncio.wait_for) or through analyze_stream (a   *)
(* background task feeding an event queue).  The gateway (LLMClient.chat)  *)
(* and the tool handlers are the environment: every step of theirs is a    *)
(* nondeterministic choice among the outcomes below.                       *)
(*                                                                         *)
(* An action is the code that runs between two suspension points (await)   *)
(* of the asyncio event loop.                                              *)
(*                                                                         *)
(* JSON values are records [type, val, text], so that a field of the wrong  *)
(* type is a value like any other:                                         *)
(*   "str"  a string, text is the string                                   *)
(*   "num"  a number, val in hundredths                                    *)
(*   "bool" val 1 is true, 0 is false                                      *)
(*   "list" a list of val step objects, each with an "action" string       *)
(*   "strlist" a list of val plain strings                                 *)
(*   "null" JSON null                                                      *)
(* A dict is a function from the keys it holds to such values.             *)
(***************************************************************************)
EXTENDS Integers, Sequences, FiniteSets, TLC

VARIABLES
    path,             \* "none" | "analyze" | "stream": the entry point called
    pc,               \* where the pipeline coroutine is suspended
    stage,            \* the stage whose run() is in progress
    tools_per_turn,   \* how many tool_use blocks a tool-requesting response holds
    iteration,        \* loop iterations begun in the current stage
    tool_call_count,  \* ResearchAgent.run: tool_call_count
    pending,          \* the response's tool_calls not yet executed
    all_tool_calls,   \* run(): all_tool_calls
    total_usage,      \* run(): total_usage
    response,         \* run(): response.content of the last response
    call_history,     \* every gateway call made: [stage, tools, last_turn,
                      \*    messages, answer]
    tool_log,         \* every ToolRegistry.execute call made: [stage, tool, outcome
                      \* of the handler, after_call: the gateway calls made so far]
    tracer_default,   \* IncidentAnalyzer._tracer._traces of the constructor's tracer
    tracer_stream,    \* stream_tracer._traces
    self_tracer,      \* which tracer self._tracer refers to
    messages,         \* MessageBus._messages
    event_queue,      \* analyze_stream: event_queue
    delivered,        \* the events analyze_stream has yielded
    local_results,    \* _run_pipeline's locals triage_result, research_result, ...
    results,          \* analyze / analyze_stream: triage_result, research_result, ...
    pipeline_error,   \* analyze_stream: pipeline_error
    deadline,         \* "none" | "armed" | "fired" | "handled"
    abort,            \* how the run was aborted: "none" | "timeout" | "error"
    report,           \* the IncidentReport built, or NoReport
    outcome,          \* "idle" | "running" | "returned" | "raised" | "closed"
    op,               \* the last call made on a component driven on its own:
                      \* its name, its arguments and what it returned
    other             \* a second call, of analyze, on the same IncidentAnalyzer:
                      \* [pc, logged: the steps its stages logged, agent_trace:
                      \* the trace of the report it returned]

vars == << path, pc, stage, tools_per_turn, iteration, tool_call_count, pending,
           all_tool_calls, total_usage, response, call_history, tool_log,
           tracer_default, tracer_stream, self_tracer, messages, event_queue,
           delivered, local_results, results, pipeline_error, deadline, abort,
           report, outcome, op, other >>

----------------------------------------------------------------------------
(* Bounds of the environment. *)

\* The most tool_use blocks one gateway response holds.
MaxToolsPerResponse == 3

\* Token usage every gateway response reports.
InputTokens == 2
OutputTokens == 1

\* The last call of a stage's loop at which the gateway may answer in text.
MaxAnswerCall == 2

\* The most events a consumer takes before it closes the iterator early.
MaxEventsBeforeClose == 2

----------------------------------------------------------------------------
(* Program constants. *)

TriageMaxIterations == 4
MAX_TOOL_CALLS == 8
RemediationMaxIterations == 3

Stages == << "triage", "research", "remediation" >>
StageSet == {"triage", "research", "remediation"}

TraceId == "trace-1"

\* tools/registry.py: the names of TOOL_SCHEMAS / _handlers.
RegisteredTools == {"search_logs", "get_metrics", "get_recent_deployments",
                    "get_service_dependencies", "search_runbooks"}

TRIAGE_TOOL_NAMES == {"get_metrics", "get_service_dependencies"}

\* The tool names the gateway asks for, in turn: the n-th tool_use block of a
\* stage's run names RequestedTools[n].  The fourth is a name no handler has.
RequestedTools == << "get_metrics", "search_logs", "search_runbooks", "restart_service" >>

RequestedTool(n) == RequestedTools[((n - 1) % Len(RequestedTools)) + 1]

----------------------------------------------------------------------------
(* JSON values and dicts. *)

Str(s)     == [type |-> "str", val |-> 0, text |-> s]
Num(n)     == [type |-> "num", val |-> n, text |-> ""]
Bool(b)    == [type |-> "bool", val |-> IF b THEN 1 ELSE 0, text |-> ""]
List(n)    == [type |-> "list", val |-> n, text |-> ""]
StrList(n) == [type |-> "strlist", val |-> n, text |-> ""]
Null       == [type |-> "null", val |-> 0, text |-> ""]

EmptyDict == [k \in {} |-> Null]

\* dict.get(key, default)
Get(d, key, default) == IF key \in DOMAIN d THEN d[key] ELSE default

\* d[key] = value
Put(d, key, value) == [k \in (DOMAIN d) \cup {key} |-> IF k = key THEN value ELSE d[k]]

----------------------------------------------------------------------------
(* monitoring/tracer.py: DecisionTracer.  A tracer's _traces is a function  *)
(* from the trace ids it holds to sequences of AgentStep.                   *)

AgentStep(agent_name, action, tool_calls, tokens_used, cost_usd) ==
    [agent_name |-> agent_name, action |-> action, tool_calls |-> tool_calls,
     tokens_used |-> tokens_used, cost_usd |-> cost_usd]

NoTraces == [k \in {} |-> << >>]

StartTrace(traces, trace_id) ==
    [k \in (DOMAIN traces) \cup {trace_id} |-> IF k = trace_id THEN << >> ELSE traces[k]]

GetTrace(traces, trace_id) ==
    IF trace_id \in DOMAIN traces THEN traces[trace_id] ELSE << >>

\* A log_step that inserts the step at the head of the list.
LogStepPrepends(traces, trace_id, step) ==
    [k \in (DOMAIN traces) \cup {trace_id} |->
        IF k = trace_id THEN << step >> \o GetTrace(traces, trace_id) ELSE traces[k]]

\* A log_step that assigns the list instead of appending to it.
LogStepReplaces(traces, trace_id, step) ==
    [k \in (DOMAIN traces) \cup {trace_id} |->
        IF k = trace_id THEN << step >> ELSE traces[k]]

LogStep(traces, trace_id, step) ==
    [k \in (DOMAIN traces) \cup {trace_id} |->
        IF k = trace_id THEN Append(GetTrace(traces, trace_id), step) ELSE traces[k]]

RECURSIVE SumTokens(_)
SumTokens(steps) ==
    IF steps = << >> THEN 0 ELSE Head(steps).tokens_used + SumTokens(Tail(steps))

RECURSIVE SumCost(_)
SumCost(steps) ==
    IF steps = << >> THEN 0 ELSE Head(steps).cost_usd + SumCost(Tail(steps))

\* A total that leaves out the first step of the trace.
GetTotalTokensSkipsFirst(traces, trace_id) ==
    IF GetTrace(traces, trace_id) = << >>
    THEN 0
    ELSE SumTokens(Tail(GetTrace(traces, trace_id)))

GetTotalTokens(traces, trace_id) == SumTokens(GetTrace(traces, trace_id))

GetTotalCost(traces, trace_id) == SumCost(GetTrace(traces, trace_id))

\* Cost in millionths of a dollar: $3 per million input, $15 per million output.
CostOf(usage) == usage.input_tokens * 3 + usage.output_tokens * 15

\* A total that counts the output tokens only.
TotalTokensOutputOnly(usage) == usage.output_tokens

TotalTokens(usage) == usage.input_tokens + usage.output_tokens

AddUsage(usage) ==
    [input_tokens |-> usage.input_tokens + InputTokens,
     output_tokens |-> usage.output_tokens + OutputTokens]

NoUsage == [input_tokens |-> 0, output_tokens |-> 0]

----------------------------------------------------------------------------
(* agent/models.py: StreamEvent, and the events a tracer built with an      *)
(* event queue puts on it.                                                  *)

NoReport ==
    [built |-> FALSE, summary |-> "", root_cause |-> "", confidence_score |-> 0,
     remediation_steps |-> 0, agent_trace |-> << >>, total_tokens |-> 0,
     total_cost_usd |-> 0, requires_human_approval |-> FALSE]

StreamEvent(event_type, agent_name, data) ==
    [event_type |-> event_type, agent_name |-> agent_name, data |-> data,
     report |-> NoReport]

Sentinel == StreamEvent("error", "", [_done |-> Bool(TRUE)])

\* Every event of type "error" taken for the end of the stream.
IsSentinelAnyError(event) == event.event_type = "error"

IsSentinel(event) == "_done" \in DOMAIN event.data /\ event.data["_done"].val = 1

\* A sink that emits one event for the step, naming its first tool call.
ToolCallEventsOnePerStep(step) ==
    IF step.tool_calls = << >> THEN << >>
    ELSE << StreamEvent("tool_call", step.agent_name,
                        [action |-> Str(step.tool_calls[1].tool_name)]) >>

\* log_step with an event queue: one tool_call event per ToolCall of the step.
ToolCallEvents(step) ==
    [i \in 1..Len(step.tool_calls) |->
        StreamEvent("tool_call", step.agent_name,
                    [action |-> Str(step.tool_calls[i].tool_name)])]

----------------------------------------------------------------------------
(* protocols/a2a.py: MessageBus. *)

Send(msgs, from_agent, to_agent, message_type, content, trace_id) ==
    Append(msgs, [from_agent |-> from_agent, to_agent |-> to_agent,
                  message_type |-> message_type, content |-> content,
                  trace_id |-> trace_id])

----------------------------------------------------------------------------
(* tools/registry.py: ToolRegistry.execute. *)

ToolCall(tool_name, result) == [tool_name |-> tool_name, result |-> result]

\* A registry that calls a handler for every name.
HandlerOutcomesWithoutLookup(tool_name) == {"data", "raise"}

\* What the handler of a registered tool does is the environment's choice: it
\* returns data, or it raises (a required argument the model left out is a
\* KeyError in _handle_search_logs, _handle_get_metrics, _handle_get_dependencies).
HandlerOutcomes(tool_name) ==
    IF tool_name \in RegisteredTools THEN {"data", "raise"} ELSE {"unknown_tool"}

\* execute() propagates what the handler raises.
ExecuteRaises(handler_outcome) == handler_outcome = "raise"

Execute(tool_name, handler_outcome) ==
    ToolCall(tool_name, IF tool_name \in RegisteredTools THEN handler_outcome
                        ELSE "unknown_tool")

----------------------------------------------------------------------------
(* The text of a gateway response.  kind says how the text reads:           *)
(*   "json"          a JSON object, obj                                     *)
(*   "fenced"        the JSON object obj inside a markdown fence                 *)
(*   "broken_braces" prose with a { and a later } that enclose no JSON      *)
(*   "non_object"    valid JSON that is no object (a list)                  *)
(*   "prose"         plain prose, no brace                                  *)

Content(kind, text, obj) == [kind |-> kind, text |-> text, obj |-> obj]

NoContent == Content("prose", "", EmptyDict)

\* What comes with tool_use blocks (tests/test_agent.py: "Let me check that.").
ToolTurnContent == Content("prose", "Let me check that.", EmptyDict)

Json(obj)   == Content("json", "object", obj)
Fenced(obj) == Content("fenced", "fenced object", obj)
BrokenBraces == Content("broken_braces", "braces around no JSON", EmptyDict)
NonObject   == Content("non_object", "a JSON list", EmptyDict)
Prose       == Content("prose", "I could not decide.", EmptyDict)

TriageTexts ==
    { Json([summary |-> Str("pool exhaustion")]),
      Json([summary |-> Num(7)]),
      Fenced([summary |-> Str("pool exhaustion")]),
      BrokenBraces, NonObject, Prose }

ResearchTexts ==
    { Json([root_cause |-> Str("deployment a1bf3d2"), confidence |-> Num(92)]),
      Json([confidence |-> Num(150)]),
      Json([root_cause |-> Str("deployment a1bf3d2"), confidence |-> Str("high")]),
      Fenced([root_cause |-> Str("deployment a1bf3d2"), confidence |-> Num(92)]),
      BrokenBraces, NonObject, Prose }

RemediationTexts ==
    { Json([remediation_steps |-> List(2), requires_human_approval |-> Bool(FALSE)]),
      Json([remediation_steps |-> List(1)]),
      Json([remediation_steps |-> StrList(1), requires_human_approval |-> Bool(FALSE)]),
      Fenced([remediation_steps |-> List(2), requires_human_approval |-> Bool(FALSE)]),
      BrokenBraces, NonObject, Prose }

\* The calls of a stage's loop at which the gateway may answer without tool
\* calls: a model answers at once or after one round of tools, or it goes on
\* requesting tools for as long as the stage lets it.
AnswerCalls == 1..MaxAnswerCall

FinalTexts(s) ==
    CASE s = "triage" -> TriageTexts
      [] s = "research" -> ResearchTexts
      [] OTHER -> RemediationTexts

\* The exceptions a gateway call raises.  TimeoutError is the builtin class
\* (asyncio.TimeoutError and socket.timeout are the same class).
GatewayExceptions == {"TimeoutError", "RuntimeError"}

----------------------------------------------------------------------------
(* json.loads and the brace slice, by kind of text. *)

\* json.loads(text) returns
LoadsOk(content) == content.kind \in {"json", "non_object"}

\* json.loads(text with the fence markers removed) returns
StrippedLoadsOk(content) == content.kind \in {"json", "fenced", "non_object"}

\* text.find("{") >= 0 and text.rfind("}") + 1 > that
HasBraces(content) == content.kind \in {"json", "fenced", "broken_braces"}

\* json.loads(text[start:end]) returns
SliceLoadsOk(content) == content.kind \in {"json", "fenced"}

\* What was loaded is a dict
LoadsDict(content) == content.kind \in {"json", "fenced"}

Extracted(kind, value) == [kind |-> kind, value |-> value]

\* agent/agents/__init__.py: extract_json.  "dict": a dict; "other": a value
\* that is no dict; "none": None.
ExtractJson(content) ==
    IF StrippedLoadsOk(content)
    THEN IF LoadsDict(content) THEN Extracted("dict", content.obj)
         ELSE Extracted("other", EmptyDict)
    ELSE IF HasBraces(content) /\ SliceLoadsOk(content)
         THEN Extracted("dict", content.obj)
         ELSE Extracted("none", EmptyDict)

----------------------------------------------------------------------------
(* What the run() of a stage does with the final text: the result it returns,    *)
(* or the exception it raises.                                              *)

Returned(result) == [raised |-> FALSE, exc |-> "", result |-> result]
Raised(exc)      == [raised |-> TRUE, exc |-> exc, result |-> EmptyDict]

\* x[:100] and len(x) work on strings and lists only.
Sized(value) == value.type \in {"str", "list", "strlist"}

TriageDefault(content) == [summary |-> Str(content.text)]

\* triage.py 125-145
TriageParse(content) ==
    LET r == ExtractJson(content) IN
    CASE r.kind = "none"  -> Returned(TriageDefault(content))
      [] r.kind = "other" -> Raised("AttributeError")   \* result.get on a list
      [] OTHER            -> Returned(r.value)

ResearchDefault(content) == [root_cause |-> Str(content.text), confidence |-> Num(50)]

\* research.py 144-161: the result, before the logging that reads it
ResearchLoads(content) ==
    IF LoadsOk(content)
    THEN IF LoadsDict(content) THEN Returned(content.obj) ELSE Raised("AttributeError")
    ELSE IF HasBraces(content)
         THEN IF SliceLoadsOk(content) THEN Returned(content.obj)
              ELSE Raised("JSONDecodeError")
         ELSE Returned(ResearchDefault(content))

\* research.py 144-170
ResearchParse(content) ==
    LET r == ResearchLoads(content) IN
    IF r.raised THEN r
    ELSE IF Sized(Get(r.result, "root_cause", Str(""))) THEN r
         ELSE Raised("TypeError")            \* result.get("root_cause", "")[:100]

RemediationDefault(content) ==
    [remediation_steps |-> List(1), requires_human_approval |-> Bool(TRUE)]

\* remediation.py 125-147
RemediationLoads(content) ==
    IF LoadsOk(content)
    THEN IF LoadsDict(content) THEN Returned(content.obj) ELSE Raised("TypeError")
    ELSE IF HasBraces(content)
         THEN IF SliceLoadsOk(content) THEN Returned(content.obj)
              ELSE Raised("JSONDecodeError")
         ELSE Returned(RemediationDefault(content))

\* A Remediation that returns the parsed result as it is.
EnsureApprovalSkipped(result) == result

\* remediation.py 149-151
EnsureApproval(result) ==
    IF "requires_human_approval" \notin DOMAIN result
    THEN Put(result, "requires_human_approval", Bool(TRUE))
    ELSE result

\* remediation.py 125-159
RemediationParse(content) ==
    LET r == RemediationLoads(content) IN
    IF r.raised THEN r
    ELSE LET result == EnsureApproval(r.result) IN
         IF Sized(Get(result, "remediation_steps", List(0))) THEN Returned(result)
         ELSE Raised("TypeError")            \* len(result.get("remediation_steps", []))

StageParse(s, content) ==
    CASE s = "triage" -> TriageParse(content)
      [] s = "research" -> ResearchParse(content)
      [] OTHER -> RemediationParse(content)

----------------------------------------------------------------------------
(* agent/core.py: IncidentAnalyzer._build_report. *)

NoResults == [s \in StageSet |-> EmptyDict]

Clamp(n) == IF n < 0 THEN 0 ELSE IF n > 100 THEN 100 ELSE n

\* core.py 126-129: [step.get("action", str(step)) for step in ...] raises on a
\* value that cannot be iterated, and on an element that is no dict.
StepsOk(value) ==
    \/ value.type = "list"
    \/ value.type = "strlist" /\ value.val = 0
    \/ value.type = "str" /\ value.text = ""

\* core.py 136: min(1.0, max(0.0, x)) raises TypeError on a string or None.
ConfidenceOk(value) == value.type \in {"num", "bool"}

ConfidenceScore(value) ==
    IF value.type = "bool" THEN value.val * 100 ELSE Clamp(value.val)

\* IncidentReport(...) validates summary: str, root_cause: str.
IsStr(value) == value.type = "str"

\* requires_human_approval: bool takes a bool, and the numbers 0 and 1.
ApprovalOk(value) ==
    \/ value.type = "bool"
    \/ value.type = "num" /\ value.val \in {0, 100}

ApprovalValue(value) == value.val # 0

\* core.py 134
ReportSummary(triage_result) == Get(triage_result, "summary", Str("Analysis incomplete"))

\* core.py 135
ReportRootCause(research_result) ==
    Get(research_result, "root_cause", Str("Could not determine root cause"))

\* core.py 136
ReportConfidence(research_result) == Get(research_result, "confidence", Num(0))

\* core.py 128
ReportSteps(remediation_result) == Get(remediation_result, "remediation_steps", List(0))

\* A report whose approval flag defaults to false.
ReportApprovalDefaultsFalse(remediation_result) ==
    Get(remediation_result, "requires_human_approval", Bool(FALSE))

\* core.py 142
ReportApproval(remediation_result) ==
    Get(remediation_result, "requires_human_approval", Bool(TRUE))

BuildReportRaises(res) ==
    \/ ~StepsOk(ReportSteps(res["remediation"]))
    \/ ~ConfidenceOk(ReportConfidence(res["research"]))
    \/ ~IsStr(ReportSummary(res["triage"]))
    \/ ~IsStr(ReportRootCause(res["research"]))
    \/ ~ApprovalOk(ReportApproval(res["remediation"]))

\* The report _build_report returns when it does not raise; traces is the
\* _traces of the tracer self._tracer refers to.
BuildReport(traces, trace_id, res) ==
    [built |-> TRUE,
     summary |-> ReportSummary(res["triage"]).text,
     root_cause |-> ReportRootCause(res["research"]).text,
     confidence_score |-> ConfidenceScore(ReportConfidence(res["research"])),
     remediation_steps |-> ReportSteps(res["remediation"]).val,
     agent_trace |-> GetTrace(traces, trace_id),
     total_tokens |-> GetTotalTokens(traces, trace_id),
     total_cost_usd |-> GetTotalCost(traces, trace_id),
     requires_human_approval |-> ApprovalValue(ReportApproval(res["remediation"]))]

----------------------------------------------------------------------------
(* The stages. *)

\* triage.py 43-46, research.py 40, remediation.py 39-42: the schemas offered.
\* Stages that pass the registry's schemas on without filtering them.
ToolsOfferedUnfiltered(s) == RegisteredTools

ToolsOffered(s) ==
    CASE s = "triage" -> {t \in RegisteredTools : t \in TRIAGE_TOOL_NAMES}
      [] s = "research" -> RegisteredTools
      [] OTHER -> {t \in RegisteredTools : t = "search_runbooks"}

\* The action of the step a stage logs when its loop has ended.
StageAction(s) ==
    CASE s = "triage" -> "triage_classification"
      [] s = "research" -> "research_findings"
      [] OTHER -> "remediation_proposal"

\* A loop that runs one iteration too many.
TriageLoopOneMore(n) == n <= TriageMaxIterations

\* triage.py 68: for _ in range(max_iterations) begins another iteration
TriageLoopContinues(n) == n < TriageMaxIterations

\* remediation.py 70
RemediationLoopContinues(n) == n < RemediationMaxIterations

\* research.py 64: while tool_call_count < MAX_TOOL_CALLS
ResearchLoopContinues(count) == count < MAX_TOOL_CALLS

\* A limit test that lets the count of the limit itself pass.
ResearchLimitOffByOne(count) == count > MAX_TOOL_CALLS

\* research.py 115: if tool_call_count >= MAX_TOOL_CALLS
ResearchLimitReached(count) == count >= MAX_TOOL_CALLS

\* A pipeline that hands Triage's result to Remediation.
NextStageSkipsResearch(s) ==
    CASE s = "triage" -> "remediation"
      [] s = "research" -> "remediation"
      [] OTHER -> "orchestrator"

\* core.py 293-320: the stage whose run() follows that of s
NextStage(s) ==
    CASE s = "triage" -> "research"
      [] s = "research" -> "remediation"
      [] OTHER -> "orchestrator"

\* bool(value), as `not remediation_result.get("requires_human_approval")` reads it
Truthy(value) ==
    CASE value.type = "str" -> value.text # ""
      [] value.type = "null" -> FALSE
      [] OTHER -> value.val # 0

\* A handoff that escalates when no approval is required.
HandoffTypeInverted(s, result) ==
    IF s = "remediation"
    THEN IF ~Truthy(Get(result, "requires_human_approval", Null)) THEN "escalate"
         ELSE "respond"
    ELSE "delegate"

\* core.py 301, 313, 325-329: the message_type of the handoff after stage s
HandoffType(s, result) ==
    IF s = "remediation"
    THEN IF ~Truthy(Get(result, "requires_human_approval", Null)) THEN "respond"
         ELSE "escalate"
    ELSE "delegate"

\* One gateway call: the stage that made it, the tool names it offered, the
\* last turn of the conversation it sent ("input": the stage's opening user
\* message, "tool_results", "limit_reached": the synthetic user turn of
\* research.py 116-122) and how the gateway answered: "pending", "tools" (a
\* response with tool_use blocks), "text" (a response without) or "raise".
\* A content block of a turn: text, a tool_use with its id and tool name, or
\* the tool_result that answers the tool_use of that id.
TextBlock == [type |-> "text", id |-> 0, name |-> ""]

ToolUseBlock(id, name) == [type |-> "tool_use", id |-> id, name |-> name]

ToolResultBlock(id) == [type |-> "tool_result", id |-> id, name |-> ""]

Turn(role, content) == [role |-> role, content |-> content]

\* triage.py 48-61, research.py 42-57, remediation.py 44-63: the conversation
\* run() starts with, behind the system prompt every chat call puts first.
InitialMessages == << Turn("system", << TextBlock >>), Turn("user", << TextBlock >>) >>

\* Results only for the tools that returned data.
ToolTurnsSkipFailed(content, calls, n) ==
    LET base == Len(calls) - n
        use == [j \in 1..n |-> ToolUseBlock(base + j, RequestedTool(base + j))]
        ids == SelectSeq([j \in 1..n |-> base + j],
                         LAMBDA k : calls[k].result = "data")
    IN << Turn("assistant", (IF content.text # "" THEN << TextBlock >> ELSE << >>) \o use),
          Turn("user", [j \in 1..Len(ids) |-> ToolResultBlock(ids[j])]) >>

\* triage.py 80-104, research.py 76-112, remediation.py 81-104: the two turns
\* appended after the n tool calls of a response have been executed.  The
\* tool_use block of the k-th tool call of the stage has id k; calls holds
\* the executed ToolCalls of the stage, the last n those of this response.
ToolTurns(content, calls, n) ==
    LET base == Len(calls) - n
        use == [j \in 1..n |-> ToolUseBlock(base + j, RequestedTool(base + j))]
        tool_results_content == [j \in 1..n |-> ToolResultBlock(base + j)]
    IN << Turn("assistant", (IF content.text # "" THEN << TextBlock >> ELSE << >>) \o use),
          Turn("user", tool_results_content) >>

\* research.py 115-122: the user turn that asks for the final analysis
LimitTurn == Turn("user", << TextBlock >>)

ChatCall(s, tools, last_turn, msgs) ==
    [stage |-> s, tools |-> tools, last_turn |-> last_turn, messages |-> msgs,
     answer |-> "pending"]

\* The last call of the history is answered.
Answered(history, answer) ==
    [history EXCEPT ![Len(history)] = [@ EXCEPT !.answer = answer]]

\* The tracer the stage agents of this run were built with.
StageTracer == IF path = "stream" THEN "stream" ELSE "default"

Traces(name) == IF name = "stream" THEN tracer_stream ELSE tracer_default

\* A handler without the except TimeoutError clause.
ExceptClauseOnlyException(exc) == "error"

\* core.py 77-96: the except clause that takes exception exc, by its class
ExceptClause(exc) == IF exc = "TimeoutError" THEN "timeout" ELSE "error"

OrchestratorStep(action) == AgentStep("orchestrator", action, << >>, 0, 0)

\* No component has been called on its own.
NoCall == [name |-> "none"]

\* The second call has not been made.
OtherIdle == [pc |-> "idle", logged |-> << >>, agent_trace |-> << >>]

----------------------------------------------------------------------------
(* Init: an IncidentAnalyzer just constructed, and a gateway that puts      *)
(* tools_per_turn tool_use blocks in each tool-requesting response.         *)

Init ==
    /\ path = "none"
    /\ pc = "idle"
    /\ stage = "none"
    /\ tools_per_turn \in 1..MaxToolsPerResponse
    /\ iteration = 0
    /\ tool_call_count = 0
    /\ pending = << >>
    /\ all_tool_calls = << >>
    /\ total_usage = NoUsage
    /\ response = NoContent
    /\ call_history = << >>
    /\ tool_log = << >>
    /\ tracer_default = NoTraces
    /\ tracer_stream = NoTraces
    /\ self_tracer = "default"
    /\ messages = << >>
    /\ event_queue = << >>
    /\ delivered = << >>
    /\ local_results = NoResults
    /\ results = NoResults
    /\ pipeline_error = "none"
    /\ deadline = "none"
    /\ abort = "none"
    /\ report = NoReport
    /\ outcome = "idle"
    /\ op = NoCall
    /\ other = OtherIdle

\* The locals of a stage's run()
SetLocals(it, count, pend, calls, usage, content) ==
    /\ iteration' = it
    /\ tool_call_count' = count
    /\ pending' = pend
    /\ all_tool_calls' = calls
    /\ total_usage' = usage
    /\ response' = content

\* run() of the next stage begins: fresh locals, and its first gateway call
BeginStage(s, history) ==
    /\ stage' = s
    /\ SetLocals(1, 0, << >>, << >>, NoUsage, NoContent)
    /\ call_history' = Append(history, ChatCall(s, ToolsOffered(s), "input", InitialMessages))
    /\ pc' = "llm"

\* core.py 77-113: analyze after wait_for has returned (exc = "none") or raised
\* exc; traces is the tracer's _traces and res the three results analyze holds.
AnalyzeEnds(traces, res, exc) ==
    LET logged == IF exc = "none" THEN traces
                  ELSE LogStep(traces, TraceId, OrchestratorStep(ExceptClause(exc)))
    IN /\ tracer_default' = logged
       /\ abort' = IF exc = "none" THEN "none" ELSE ExceptClause(exc)
       /\ results' = res
       /\ IF BuildReportRaises(res)
          THEN report' = NoReport /\ outcome' = "raised"
          ELSE report' = BuildReport(logged, TraceId, res) /\ outcome' = "returned"
       /\ pc' = "stopped"
       /\ UNCHANGED << tracer_stream, self_tracer, event_queue, delivered,
                       pipeline_error >>

\* core.py 243-250: _streaming_pipeline catches exc, and ends
StreamPipelineFails(traces, queue, exc) ==
    /\ tracer_stream' = traces
    /\ pipeline_error' = exc
    /\ event_queue' = queue \o << StreamEvent("error", "", [message |-> Str(exc)]),
                                 Sentinel >>
    /\ pc' = "stopped"
    /\ UNCHANGED << tracer_default, self_tracer, delivered, results, abort, report,
                    outcome >>

\* The run() of the stage in progress raises exc; traces, queue and history
\* are the tracer, the event queue and the gateway calls as run() leaves them.
StageFails(traces, queue, exc, history) ==
    /\ IF path = "analyze"
       THEN AnalyzeEnds(traces, results, exc)
       ELSE StreamPipelineFails(traces, queue, exc)
    /\ call_history' = history
    /\ UNCHANGED << path, stage, tools_per_turn, messages, local_results, deadline >>

\* The agent_start of the next stage left out.
CompletionEventsWithoutStart(s, traces) ==
    << StreamEvent("agent_complete", s,
                   [tokens_used |-> Num(GetTotalTokens(traces, TraceId))]) >>

\* An agent_start of the next stage queued before the agent_complete.
CompletionEventsStartFirst(s, traces) ==
    LET done == StreamEvent("agent_complete", s,
                            [tokens_used |-> Num(GetTotalTokens(traces, TraceId))])
    IN IF s = "remediation" THEN << done >>
       ELSE << StreamEvent("agent_start", NextStage(s), EmptyDict), done >>

\* core.py 199-202 and 210-212, 214-217 and 225-227, 229-232: the events
\* _streaming_pipeline queues between the return of stage s and the next run()
CompletionEvents(s, traces) ==
    LET done == StreamEvent("agent_complete", s,
                            [tokens_used |-> Num(GetTotalTokens(traces, TraceId))])
    IN IF s = "remediation" THEN << done >>
       ELSE << done, StreamEvent("agent_start", NextStage(s), EmptyDict) >>

\* core.py 296-334 and 194-242: the run() of the stage in progress returns result
StageReturns(traces, queue, result, history) ==
    LET s == stage
        sent == Send(messages, s, NextStage(s), HandoffType(s, result), result, TraceId)
        returned == [local_results EXCEPT ![s] = result]
    IN /\ messages' = sent
       /\ UNCHANGED << path, tools_per_turn, deadline >>
       /\ IF path = "analyze"
          THEN /\ local_results' = returned
               /\ IF s = "remediation"
                  THEN /\ AnalyzeEnds(traces, returned, "none")
                       /\ call_history' = history
                       /\ UNCHANGED stage
                  ELSE /\ BeginStage(NextStage(s), history)
                       /\ tracer_default' = traces
                       /\ UNCHANGED << tracer_stream, self_tracer, event_queue,
                                       delivered, results, pipeline_error, abort,
                                       report, outcome >>
          ELSE /\ results' = [results EXCEPT ![s] = result]
               /\ tracer_stream' = traces
               /\ UNCHANGED << local_results, tracer_default, self_tracer, delivered,
                               pipeline_error, abort, report, outcome >>
               /\ IF s = "remediation"
                  THEN /\ event_queue' = queue \o CompletionEvents(s, traces)
                                               \o << Sentinel >>
                       /\ pc' = "stopped"
                       /\ call_history' = history
                       /\ UNCHANGED stage
                  ELSE /\ event_queue' = queue \o CompletionEvents(s, traces)
                       /\ BeginStage(NextStage(s), history)

\* The loop of the stage in progress has ended with run()'s locals as given:
\* the stage logs its step, parses the text and returns or raises.
FinishStage(count, calls, usage, content, history) ==
    LET s == stage
        step == AgentStep(s, StageAction(s),
                          IF s = "research" THEN << >> ELSE calls,
                          TotalTokens(usage), CostOf(usage))
        traces == LogStep(Traces(StageTracer), TraceId, step)
        queue == IF path = "stream" THEN event_queue \o ToolCallEvents(step)
                 ELSE event_queue
        parsed == StageParse(s, content)
    IN IF parsed.raised
       THEN /\ StageFails(traces, queue, parsed.exc, history)
            /\ SetLocals(iteration, count, << >>, calls, usage, content)
       ELSE /\ StageReturns(traces, queue, parsed.result, history)
            /\ IF s = "remediation"
               THEN SetLocals(iteration, count, << >>, calls, usage, content)
               ELSE TRUE

----------------------------------------------------------------------------
(* The actions. *)

\* core.py 51-76: analyze() up to the first gateway call of Triage
Analyze ==
    /\ pc = "idle"
    /\ UNCHANGED << op, other >>
    /\ path' = "analyze"
    /\ outcome' = "running"
    /\ deadline' = "armed"
    /\ tracer_default' = StartTrace(tracer_default, TraceId)
    /\ BeginStage("triage", call_history)
    /\ UNCHANGED << tools_per_turn, tool_log, tracer_stream, self_tracer, messages,
                    event_queue, delivered, local_results, results, pipeline_error,
                    abort, report >>

\* core.py 162-198 and 252-256: analyze_stream() up to the first gateway call
\* of Triage, the consumer waiting on the queue
AnalyzeStream ==
    /\ pc = "idle"
    /\ UNCHANGED << op, other >>
    /\ path' = "stream"
    /\ outcome' = "running"
    /\ tracer_stream' = StartTrace(NoTraces, TraceId)
    /\ event_queue' = << StreamEvent("agent_start", "triage", EmptyDict) >>
    /\ BeginStage("triage", call_history)
    /\ UNCHANGED << tools_per_turn, tool_log, tracer_default, self_tracer, messages,
                    delivered, local_results, results, pipeline_error, deadline,
                    abort, report >>

\* A pipeline that the deadline does not cancel.
PipelineRunsUncancelled == pc \in {"llm", "llm_final", "tool"}

\* The pipeline takes steps until the deadline has cancelled it.
PipelineRuns == pc \in {"llm", "llm_final", "tool"} /\ deadline # "fired"

\* The tool_use blocks of a tool-requesting response, by name.
RequestedNow == [j \in 1..tools_per_turn |-> RequestedTool(Len(all_tool_calls) + j)]

\* A gateway call of the loop returns a response that requests tools.
GatewayRequestsTools ==
    /\ PipelineRuns
    /\ UNCHANGED << op, other >>
    /\ pc = "llm"
    /\ SetLocals(iteration, tool_call_count, RequestedNow, all_tool_calls,
                 AddUsage(total_usage), ToolTurnContent)
    /\ pc' = "tool"
    /\ call_history' = Answered(call_history, "tools")
    /\ UNCHANGED << path, stage, tools_per_turn, tool_log, tracer_default,
                    tracer_stream, self_tracer, messages, event_queue, delivered,
                    local_results, results, pipeline_error, deadline, abort, report,
                    outcome >>

\* A gateway call of the loop returns a response without tool calls.
GatewayAnswers ==
    /\ PipelineRuns
    /\ UNCHANGED << op, other >>
    /\ pc = "llm"
    /\ iteration \in AnswerCalls
    /\ \E content \in FinalTexts(stage) :
          FinishStage(tool_call_count, all_tool_calls, AddUsage(total_usage), content,
                      Answered(call_history, "text"))
    /\ UNCHANGED tool_log

\* research.py 123-128: the call made without tools returns; tool calls the
\* response may hold are not read.
GatewayAnswersForced ==
    /\ PipelineRuns
    /\ UNCHANGED << op, other >>
    /\ pc = "llm_final"
    /\ \E content \in FinalTexts(stage) \cup {ToolTurnContent} :
          FinishStage(tool_call_count, all_tool_calls, AddUsage(total_usage), content,
                      Answered(call_history,
                               IF content = ToolTurnContent THEN "tools" ELSE "text"))
    /\ UNCHANGED tool_log

\* A gateway call raises.
GatewayRaises ==
    /\ PipelineRuns
    /\ UNCHANGED << op, other >>
    /\ pc \in {"llm", "llm_final"}
    /\ \E exc \in GatewayExceptions :
          StageFails(Traces(StageTracer), event_queue, exc,
                     Answered(call_history, "raise"))
    /\ UNCHANGED << iteration, tool_call_count, pending, all_tool_calls, total_usage,
                    response, tool_log >>

\* The loop of the stage goes on after the tool results were appended.
LoopContinues(s, n, count) ==
    CASE s = "triage" -> TriageLoopContinues(n)
      [] s = "research" -> ResearchLoopContinues(count)
      [] OTHER -> RemediationLoopContinues(n)

\* triage.py 82-104, research.py 78-128, remediation.py 83-104: the next tool
\* call of the response is executed and, after the last one, the loop goes on.
ExecuteTool ==
    /\ PipelineRuns
    /\ UNCHANGED << op, other >>
    /\ pc = "tool"
    /\ \E handler_outcome \in HandlerOutcomes(Head(pending)) :
        LET name == Head(pending)
            tool_call == Execute(name, handler_outcome)
            calls == Append(all_tool_calls, tool_call)
            count == IF stage = "research" THEN tool_call_count + 1 ELSE tool_call_count
            step == AgentStep("research", "tool_call:" \o name, << tool_call >>, 0, 0)
            traces == IF stage = "research"
                      THEN LogStep(Traces(StageTracer), TraceId, step)
                      ELSE Traces(StageTracer)
            queue == IF stage = "research" /\ path = "stream"
                     THEN event_queue \o ToolCallEvents(step)
                     ELSE event_queue
            rest == Tail(pending)
            sent == call_history[Len(call_history)].messages
            unchanged_run ==
                UNCHANGED << path, stage, tools_per_turn, self_tracer, messages,
                             delivered, local_results, results, pipeline_error,
                             deadline, abort, report, outcome >>
            logged ==
                /\ IF path = "stream"
                   THEN tracer_stream' = traces /\ UNCHANGED tracer_default
                   ELSE tracer_default' = traces /\ UNCHANGED tracer_stream
                /\ event_queue' = queue
        IN /\ tool_log' = Append(tool_log, [stage |-> stage, tool |-> name,
                                            outcome |-> handler_outcome,
                                            after_call |-> Len(call_history)])
           /\ IF ExecuteRaises(handler_outcome)
              THEN /\ StageFails(Traces(StageTracer), event_queue, "KeyError",
                                   call_history)
                   /\ UNCHANGED << iteration, tool_call_count, pending, all_tool_calls,
                                   total_usage, response >>
              ELSE IF rest # << >>
              THEN /\ SetLocals(iteration, count, rest, calls, total_usage, response)
                   /\ pc' = "tool"
                   /\ logged
                   /\ unchanged_run
                   /\ UNCHANGED call_history
              ELSE IF stage = "research" /\ ResearchLimitReached(count)
              THEN /\ SetLocals(iteration, count, rest, calls, total_usage, response)
                   /\ pc' = "llm_final"
                   /\ call_history' =
                        Append(call_history,
                               ChatCall(stage, {}, "limit_reached",
                                        sent \o ToolTurns(response, calls, tools_per_turn)
                                             \o << LimitTurn >>))
                   /\ logged
                   /\ unchanged_run
              ELSE IF LoopContinues(stage, iteration, count)
              THEN /\ SetLocals(iteration + 1, count, rest, calls, total_usage, response)
                   /\ pc' = "llm"
                   /\ call_history' =
                        Append(call_history,
                               ChatCall(stage, ToolsOffered(stage), "tool_results",
                                        sent \o ToolTurns(response, calls, tools_per_turn)))
                   /\ logged
                   /\ unchanged_run
              ELSE FinishStage(count, calls, total_usage, response, call_history)

\* core.py 73-76: the deadline of wait_for expires while the pipeline is
\* suspended in a gateway call or a tool call; wait_for cancels the pipeline.
DeadlineExpires ==
    /\ path = "analyze"
    /\ UNCHANGED << op, other >>
    /\ deadline = "armed"
    /\ pc \in {"llm", "llm_final", "tool"}
    /\ deadline' = "fired"
    /\ UNCHANGED << path, pc, stage, tools_per_turn, iteration, tool_call_count,
                    pending, all_tool_calls, total_usage, response, call_history,
                    tool_log, tracer_default, tracer_stream, self_tracer, messages,
                    event_queue, delivered, local_results, results, pipeline_error,
                    abort, report, outcome >>

\* A wait that lets the pipeline finish before it raises.
WaitForAwaitsPipeline == deadline = "fired" /\ pc = "stopped"

\* asyncio.wait_for raises TimeoutError once the deadline has fired, whether
\* or not the call the pipeline is suspended in ever completes.
WaitForRaises == deadline = "fired"

\* core.py 77-113: the cancelled pipeline unwinds, wait_for raises TimeoutError
\* and analyze handles it.
CancelPipeline ==
    /\ path = "analyze"
    /\ UNCHANGED << op, other >>
    /\ outcome = "running"
    /\ WaitForRaises
    /\ deadline' = "handled"
    /\ AnalyzeEnds(tracer_default, results, "TimeoutError")
    /\ UNCHANGED << path, stage, tools_per_turn, iteration, tool_call_count, pending,
                    all_tool_calls, total_usage, response, call_history, tool_log,
                    messages, local_results >>

\* core.py 263-284: analyze_stream after the sentinel
StreamEnds ==
    LET logged == IF pipeline_error # "none"
                  THEN LogStep(tracer_stream, TraceId, OrchestratorStep("error"))
                  ELSE tracer_stream
        built == BuildReport(logged, TraceId, results)
    IN /\ tracer_stream' = logged
       /\ abort' = IF pipeline_error # "none" THEN "error" ELSE "none"
       /\ IF BuildReportRaises(results)
          THEN /\ self_tracer' = "stream"
               /\ report' = NoReport
               /\ outcome' = "raised"
               /\ UNCHANGED delivered
          ELSE /\ self_tracer' = self_tracer
               /\ report' = built
               /\ outcome' = "returned"
               /\ delivered' =
                    Append(delivered, [StreamEvent("analysis_complete", "", EmptyDict)
                                         EXCEPT !.report = built])

\* core.py 255-284: the consumer takes the next event off the queue
Deliver ==
    /\ path = "stream"
    /\ UNCHANGED << op, other >>
    /\ outcome = "running"
    /\ event_queue # << >>
    /\ event_queue' = Tail(event_queue)
    /\ IF IsSentinel(Head(event_queue))
       THEN StreamEnds
       ELSE /\ delivered' = Append(delivered, Head(event_queue))
            /\ UNCHANGED << tracer_stream, self_tracer, abort, report, outcome >>
    /\ UNCHANGED << path, pc, stage, tools_per_turn, iteration, tool_call_count,
                    pending, all_tool_calls, total_usage, response, call_history,
                    tool_log, tracer_default, messages, local_results, results,
                    pipeline_error, deadline >>

\* core.py 252-259: the consumer closes the iterator of analyze_stream while
\* the generator is suspended at `yield event`.  GeneratorExit is raised at
\* the yield; no try/finally encloses the loop, `await task` is not reached
\* and nothing cancels the task: the call ends and the pipeline is left as
\* it is.
ConsumerCloses ==
    /\ path = "stream"
    /\ UNCHANGED << op, other >>
    /\ outcome = "running"
    /\ Len(delivered) \in 1..MaxEventsBeforeClose
    /\ outcome' = "closed"
    /\ UNCHANGED << path, pc, stage, tools_per_turn, iteration, tool_call_count,
                    pending, all_tool_calls, total_usage, response, call_history,
                    tool_log, tracer_default, tracer_stream, self_tracer, messages,
                    event_queue, delivered, local_results, results, pipeline_error,
                    deadline, abort, report >>

Next ==
    \/ Analyze
    \/ AnalyzeStream
    \/ GatewayRequestsTools
    \/ GatewayAnswers
    \/ GatewayAnswersForced
    \/ GatewayRaises
    \/ ExecuteTool
    \/ DeadlineExpires
    \/ CancelPipeline
    \/ Deliver
    \/ ConsumerCloses

Spec == Init /\ [][Next]_vars

\* The sequential path alone, with the fairness of the event loop: a
\* callback that is ready (the timeout of wait_for, the cancellation it
\* requests) is run.  No fairness is asked of the gateway or of the tools,
\* so a call may stay outstanding for ever.
NextAnalyze ==
    \/ Analyze
    \/ GatewayRequestsTools
    \/ GatewayAnswers
    \/ GatewayAnswersForced
    \/ GatewayRaises
    \/ ExecuteTool
    \/ DeadlineExpires
    \/ CancelPipeline

LiveSpec == Init /\ [][NextAnalyze]_vars /\ WF_vars(CancelPipeline)

----------------------------------------------------------------------------
(* What the properties read. *)

\* run() of stage s has returned: its handoff message is in the log.
Completed(s) == \E i \in 1..Len(messages) : messages[i].from_agent = s

\* The result run() of stage s returned.
StageResult(s) == IF path = "analyze" THEN local_results[s] ELSE results[s]

\* The trace of the run, in the tracer the stages log to.
RunTrace == GetTrace(Traces(StageTracer), TraceId)

CountAction(steps, action) ==
    Cardinality({i \in 1..Len(steps) : steps[i].action = action})

\* Stage s has logged the step that ends its loop.
StageOver(s) == \E i \in 1..Len(RunTrace) : RunTrace[i].action = StageAction(s)

CallsOf(s) == {i \in 1..Len(call_history) : call_history[i].stage = s}

\* The calls of the loop offer tools, the call after the limit offers none.
LoopCallsOf(s) == {i \in CallsOf(s) : call_history[i].tools # {}}

ForcedCallsOf(s) == {i \in CallsOf(s) : call_history[i].tools = {}}

\* Every response to the calls in set requested at least one tool call.
AllRequestTools(set) == \A i \in set : call_history[i].answer = "tools"

Cap(s) ==
    CASE s = "triage" -> TriageMaxIterations
      [] s = "research" -> MAX_TOOL_CALLS
      [] OTHER -> RemediationMaxIterations

\* The steps Research logs for its tool calls.
ToolSteps(steps) ==
    {i \in 1..Len(steps) : steps[i].agent_name = "research"
                           /\ steps[i].action # "research_findings"}

ReportTotalsAgree(r) ==
    /\ r.total_tokens = SumTokens(r.agent_trace)
    /\ r.total_cost_usd = SumCost(r.agent_trace)

----------------------------------------------------------------------------
(* The claims. *)

\* C1: analyze returns an IncidentReport and never raises to its caller,
\* whatever the gateway and the tools do and whatever text they return.
C1_AnalyzeNeverRaises == path = "analyze" => outcome # "raised"

\* C2: when the deadline expires before the three stages have finished,
\* analyze returns a report whose trace holds exactly one step with action
\* "timeout", logged by the orchestrator, and no step with action "error".
C2_TimeoutStepOnce ==
    deadline = "handled" =>
        /\ outcome = "returned"
        /\ report.built
        /\ CountAction(report.agent_trace, "timeout") = 1
        /\ \A i \in 1..Len(report.agent_trace) :
              report.agent_trace[i].action = "timeout"
                  => report.agent_trace[i].agent_name = "orchestrator"
        /\ CountAction(report.agent_trace, "error") = 0

\* The deadline expired while Remediation was in flight, after Research had
\* logged its steps.
C2_Witness ==
    /\ deadline = "handled"
    /\ stage = "remediation"
    /\ report.built
    /\ Len(report.agent_trace) >= 3

\* C3: once the deadline has fired, analyze eventually returns to its caller,
\* even when the call the pipeline is suspended in never completes.
C3_DeadlineUnblocksCaller == (deadline = "fired") ~> (outcome = "returned")

\* analyze has returned after the deadline, the last gateway call still
\* unanswered.
C3_Witness ==
    /\ deadline = "handled"
    /\ outcome = "returned"
    /\ call_history[Len(call_history)].answer = "pending"
    /\ stage = "research"

\* C4: when analyze is aborted after one or more stages completed, the report
\* is assembled from the completed stages' results: the summary is Triage's,
\* root cause and confidence are Research's.
C4_DegradedReportUsesCompletedStages ==
    (path = "analyze" /\ report.built /\ abort # "none") =>
        /\ (Completed("triage") /\ "summary" \in DOMAIN local_results["triage"]
              /\ IsStr(local_results["triage"]["summary"]))
             => report.summary = local_results["triage"]["summary"].text
        /\ (Completed("research") /\ ~BuildReportRaises(local_results))
             => /\ report.root_cause = ReportRootCause(local_results["research"]).text
                /\ report.confidence_score =
                     ConfidenceScore(ReportConfidence(local_results["research"]))

\* C5: a stage exception other than the deadline makes the orchestrator append
\* exactly one "error" step, start no later stage and return a report that
\* holds the step; a run without exception and deadline has no "error" and no
\* "timeout" step.
C5_StageExceptionLogsError ==
    /\ (path = "analyze" /\ outcome # "running" /\ abort # "none"
          /\ deadline # "handled")
         => /\ pc = "stopped"
            /\ report.built
            /\ CountAction(report.agent_trace, "error") = 1
            /\ \A i \in 1..Len(report.agent_trace) :
                  report.agent_trace[i].action = "error"
                      => report.agent_trace[i].agent_name = "orchestrator"
    /\ (path = "analyze" /\ outcome = "returned" /\ abort = "none")
         => /\ CountAction(report.agent_trace, "error") = 0
            /\ CountAction(report.agent_trace, "timeout") = 0

\* The final text of Remediation parses to an object without
\* requires_human_approval, or parses to nothing and the default is taken.
OmitsApproval(content) ==
    \/ content.kind \in {"json", "fenced"}
         /\ "requires_human_approval" \notin DOMAIN content.obj
    \/ content.kind = "prose"

\* C6: when the parsed Remediation result lacks requires_human_approval, and
\* when unparsable output falls back to the stage default, the stage result
\* and the final report both have requires_human_approval = true.
C6_MissingApprovalForcedTrue ==
    (Completed("remediation") /\ OmitsApproval(response)) =>
        /\ Get(StageResult("remediation"), "requires_human_approval", Null) = Bool(TRUE)
        /\ report.built => report.requires_human_approval

\* Remediation answered with steps and no approval field; the report is built.
C6_Witness ==
    /\ Completed("remediation")
    /\ response = Json([remediation_steps |-> List(1)])
    /\ report.built
    /\ report.requires_human_approval

\* C7: every report of a run that ended in a timeout or an error, sequential
\* or streaming, has requires_human_approval = true.
C7_AbortedReportNeedsApproval ==
    (report.built /\ abort # "none") => report.requires_human_approval

\* A streaming run failed in Remediation, after Triage and Research returned.
C7_Witness ==
    /\ path = "stream"
    /\ abort = "error"
    /\ report.built
    /\ Completed("research")
    /\ report.requires_human_approval

\* C8: in every report returned by analyze or carried by analysis_complete,
\* total_tokens and total_cost_usd are the sums over the report's agent_trace.
C8_TotalsAreSumsOverTrace ==
    /\ report.built => ReportTotalsAgree(report)
    /\ \A i \in 1..Len(delivered) :
          delivered[i].event_type = "analysis_complete"
              => ReportTotalsAgree(delivered[i].report)

\* A degraded report with the steps of two stages, delivered by the stream.
C8_Witness ==
    /\ Len(delivered) > 0
    /\ delivered[Len(delivered)].event_type = "analysis_complete"
    /\ delivered[Len(delivered)].report.total_tokens > TotalTokens(AddUsage(NoUsage))
    /\ abort = "error"

C10_AtMostEightToolCalls ==
    /\ Cardinality({i \in 1..Len(tool_log) : tool_log[i].stage = "research"})
          <= MAX_TOOL_CALLS
    /\ Cardinality(ToolSteps(RunTrace)) <= MAX_TOOL_CALLS
    /\ (stage = "research" /\ pc = "llm_final")
          => Cardinality(ToolSteps(RunTrace)) = MAX_TOOL_CALLS

\* The result a stage returns when its fallback parser gets the text of a
\* tool-requesting response.
TruncatedResult(s) ==
    IF s = "triage" THEN TriageDefault(ToolTurnContent)
    ELSE RemediationDefault(ToolTurnContent)

\* The tool calls of Research whose handler returned.
ResearchExecuted ==
    {j \in 1..Len(tool_log) : tool_log[j].stage = "research"
                               /\ tool_log[j].outcome # "raise"}

\* C11: when the cap is reached while the model still requests tools, Research
\* appends the limit-reached user turn and makes exactly one further gateway
\* call, which offers no tool schemas, and executes no tool after it; Triage
\* and Remediation make no further call and give the text of the last
\* tool-requesting response to their fallback parser.
C11_CapReachedWhileRequesting ==
    /\ \A i \in CallsOf("research") :
          call_history[i].tools = {} <=> call_history[i].last_turn = "limit_reached"
    /\ \A i \in ForcedCallsOf("research") :
          /\ \A k \in CallsOf("research") : k <= i
          /\ \A j \in 1..Len(tool_log) :
                tool_log[j].stage = "research" => tool_log[j].after_call < i
    /\ (stage = "research" /\ tool_call_count >= MAX_TOOL_CALLS /\ pending = << >>)
          => Cardinality(ForcedCallsOf("research")) = 1
    /\ (StageOver("research") /\ Cardinality(ResearchExecuted) >= MAX_TOOL_CALLS)
          => Cardinality(ForcedCallsOf("research")) = 1
    /\ \A s \in {"triage", "remediation"} :
          /\ ForcedCallsOf(s) = {}
          /\ Cardinality(CallsOf(s)) <= Cap(s)
          /\ (StageOver(s) /\ AllRequestTools(CallsOf(s)))
                => /\ Cardinality(CallsOf(s)) = Cap(s)
                   /\ Completed(s)
                   /\ StageResult(s) = TruncatedResult(s)

\* Research ran over its limit with three tool calls a response and answered
\* the forced call; Remediation then requested tools up to its cap.
C11_Witness ==
    /\ tools_per_turn = 3
    /\ \E i \in ForcedCallsOf("research") : call_history[i].answer = "text"
    /\ Completed("remediation")
    /\ AllRequestTools(CallsOf("remediation"))
    /\ StageResult("remediation") = TruncatedResult("remediation")

\* C12: whatever the final text (a JSON object, a fenced JSON object, prose
\* with braces around no JSON, JSON that is no object, plain prose), the run()
\* of each stage returns a result map and does not raise: a stage that has
\* logged its step has returned.
C12_FallbackNeverRaises ==
    \A s \in StageSet :
        StageOver(s) => /\ Completed(s)
                        /\ StageResult(s) # EmptyDict

\* The execute calls of the stage in progress, in order.
StageToolLog == SelectSeq(tool_log, LAMBDA e : e.stage = stage)

\* C13: when the handler of a registered tool raises, execute returns a
\* ToolCall whose result holds the error and does not propagate it: the
\* calling stage gets the ToolCall and is not aborted.
C13_HandlerErrorCaptured ==
    \A k \in 1..Len(StageToolLog) :
        StageToolLog[k].outcome = "raise" =>
            /\ k <= Len(all_tool_calls)
            /\ all_tool_calls[k].tool_name = StageToolLog[k].tool
            /\ all_tool_calls[k].result = "error"
            /\ pipeline_error # "KeyError"

\* C14: execute with a name that is not in the registry invokes no handler,
\* does not raise and returns a ToolCall whose result is the error naming the
\* unknown tool; the calling stage gets the ToolCall and goes on.
C14_UnknownToolIsAnErrorResult ==
    \A k \in 1..Len(StageToolLog) :
        StageToolLog[k].tool \notin RegisteredTools =>
            /\ StageToolLog[k].outcome = "unknown_tool"
            /\ k <= Len(all_tool_calls)
            /\ all_tool_calls[k] = ToolCall(StageToolLog[k].tool, "unknown_tool")
            /\ (k = Len(StageToolLog) /\ pc = "stopped")
                  => (deadline = "handled" \/ StageOver(stage)
                      \/ call_history[Len(call_history)].answer = "raise")

\* Research got the error result of restart_service, its fourth tool call, and
\* made its next gateway call.
C14_Witness ==
    /\ stage = "research"
    /\ pc = "llm"
    /\ Len(all_tool_calls) = 4
    /\ all_tool_calls[4] = ToolCall("restart_service", "unknown_tool")
    /\ call_history[Len(call_history)].last_turn = "tool_results"

\* The results the stages of the run returned, by stage: the same on both
\* paths for the same gateway and tool outcomes.
ReturnedResults == [s \in StageSet |-> StageResult(s)]

\* C15: for the same gateway and tool outcomes, a stage failure after
\* completed stages included, analyze and analyze_stream build reports that
\* agree on summary, root cause, confidence, steps, approval flag and trace
\* steps: on either path the report is the one assembled from the results the
\* stages returned, and a stage failure is traced as one "error" step.
C15_PathsBuildTheSameReport ==
    (report.built /\ deadline # "handled") =>
        /\ ~BuildReportRaises(ReturnedResults)
        /\ report.summary = ReportSummary(StageResult("triage")).text
        /\ report.root_cause = ReportRootCause(StageResult("research")).text
        /\ report.confidence_score =
              ConfidenceScore(ReportConfidence(StageResult("research")))
        /\ report.remediation_steps = ReportSteps(StageResult("remediation")).val
        /\ report.requires_human_approval =
              ApprovalValue(ReportApproval(StageResult("remediation")))
        /\ \A i \in 1..Len(report.agent_trace) :
              report.agent_trace[i].agent_name = "orchestrator"
                  => report.agent_trace[i].action = "error"
        /\ ReportTotalsAgree(report)

\* The events of a sequence that are no tool_call events, as (type, agent).
Lifecycle(events) ==
    LET kept == SelectSeq(events, LAMBDA e : e.event_type # "tool_call")
    IN [i \in 1..Len(kept) |-> << kept[i].event_type, kept[i].agent_name >>]

\* C16: a successful analyze_stream run delivers agent_start and
\* agent_complete of triage, research and remediation in that order, tool_call
\* events possibly between them, then exactly one analysis_complete carrying
\* the full report, and nothing after it.
C16_StreamEventOrder ==
    (path = "stream" /\ outcome = "returned" /\ abort = "none") =>
        /\ Lifecycle(delivered) =
              << << "agent_start", "triage" >>, << "agent_complete", "triage" >>,
                 << "agent_start", "research" >>, << "agent_complete", "research" >>,
                 << "agent_start", "remediation" >>,
                 << "agent_complete", "remediation" >>,
                 << "analysis_complete", "" >> >>
        /\ delivered[Len(delivered)].event_type = "analysis_complete"
        /\ delivered[Len(delivered)].report.built
        /\ delivered[Len(delivered)].report = report
        /\ event_queue = << >>

\* A successful streamed run that delivered tool_call events of Research.
C16_Witness ==
    /\ path = "stream"
    /\ outcome = "returned"
    /\ abort = "none"
    /\ \E i \in 1..Len(delivered) :
          delivered[i].event_type = "tool_call" /\ delivered[i].agent_name = "research"
    /\ Len(report.agent_trace) > 3

\* C17: when the consumer of analyze_stream stops before analysis_complete,
\* the pipeline task is joined or cancelled as the call ends: once the
\* consumer has gone, no gateway call is made, no tool executed and no event
\* queued.
C17_NoPipelineAfterConsumerLeft ==
    [][outcome = "closed" =>
          /\ Len(call_history') = Len(call_history)
          /\ Len(tool_log') = Len(tool_log)
          /\ Len(event_queue') = Len(event_queue)]_vars

StageIndex(s) ==
    CASE s = "triage" -> 1
      [] s = "research" -> 2
      [] OTHER -> 3

\* Stage s has made a gateway call or executed a tool.
Started(s) ==
    \/ CallsOf(s) # {}
    \/ \E j \in 1..Len(tool_log) : tool_log[j].stage = s

\* C18: the stages of a run are strictly sequential, on both paths: Research
\* makes no gateway or tool call before Triage's run has returned, Remediation
\* none before Research's run has returned, and at most one stage is in
\* progress at any time.
C18_StagesSequential ==
    /\ \A s, t \in StageSet :
          (Started(s) /\ StageIndex(t) < StageIndex(s)) => Completed(t)
    /\ \A i, k \in 1..Len(call_history) :
          i < k => StageIndex(call_history[i].stage) <= StageIndex(call_history[k].stage)
    /\ \A j \in 1..Len(tool_log) :
          /\ tool_log[j].after_call \in 1..Len(call_history)
          /\ tool_log[j].stage = call_history[tool_log[j].after_call].stage
    /\ Cardinality({s \in StageSet : Started(s) /\ ~Completed(s)}) <= 1
    /\ stage \in StageSet => \A s \in StageSet :
          (Started(s) /\ ~Completed(s)) => s = stage

\* A streamed run in which Remediation executes a tool after Triage and
\* Research have returned.
C18_Witness ==
    /\ path = "stream"
    /\ stage = "remediation"
    /\ Completed("triage") /\ Completed("research")
    /\ \E j \in 1..Len(tool_log) : tool_log[j].stage = "remediation"
    /\ \E j \in 1..Len(tool_log) : tool_log[j].stage = "research"

\* The stages whose run() has returned a result.
ReturnedStages == {s \in StageSet : StageResult(s) # EmptyDict}

\* The message log of the run, as (from, to, type).
Handoffs ==
    LET own == SelectSeq(messages, LAMBDA m : m.trace_id = TraceId)
    IN [i \in 1..Len(own) |->
          << own[i].from_agent, own[i].to_agent, own[i].message_type >>]

DegradedReport ==
    /\ report.built
    /\ abort # "none"
    /\ Len(report.agent_trace) > 0
    /\ report.agent_trace[Len(report.agent_trace)].agent_name = "orchestrator"
    /\ \A i \in 1..Len(report.agent_trace) - 1 :
          report.agent_trace[i].agent_name # "orchestrator"

\* The loop does not go on after gateway call i raised.
NotRetried(i) ==
    /\ i = Len(call_history)
    /\ \A j \in 1..Len(tool_log) : tool_log[j].after_call < i
    /\ ~StageOver(call_history[i].stage)
    /\ ~Completed(call_history[i].stage)
    /\ pc = "stopped"

\* No gateway call that raised was followed by another call, a tool or a
\* stage step of its stage.
GatewayErrorNotRetried ==
    \A i \in 1..Len(call_history) : call_history[i].answer = "raise" => NotRetried(i)

\* C20: when a gateway call raises inside a stage's loop, the loop makes no
\* further gateway call, run() executes no further tool and logs no stage
\* step, and the orchestrator turns the exception into a degraded report.
C20_GatewayErrorPropagates ==
    /\ GatewayErrorNotRetried
    /\ \A i \in 1..Len(call_history) :
          (call_history[i].answer = "raise" /\ outcome \notin {"running", "closed"})
              => (outcome = "returned" /\ DegradedReport)

----------------------------------------------------------------------------
(* The components driven on their own: a caller makes any sequence of calls *)
(* on one object, and op records the last call and what it returned.  The   *)
(* variables of a run stay as the constructor left them.                    *)

run_vars == << path, pc, stage, tools_per_turn, iteration, tool_call_count, pending,
               all_tool_calls, total_usage, response, call_history, tool_log,
               delivered, local_results, results, pipeline_error, deadline, abort,
               report, outcome, other >>

RunIdle ==
    /\ path = "none"
    /\ pc = "idle"
    /\ stage = "none"
    /\ tools_per_turn = 1
    /\ iteration = 0
    /\ tool_call_count = 0
    /\ pending = << >>
    /\ all_tool_calls = << >>
    /\ total_usage = NoUsage
    /\ response = NoContent
    /\ call_history = << >>
    /\ tool_log = << >>
    /\ delivered = << >>
    /\ local_results = NoResults
    /\ results = NoResults
    /\ pipeline_error = "none"
    /\ deadline = "none"
    /\ abort = "none"
    /\ report = NoReport
    /\ outcome = "idle"
    /\ other = OtherIdle

----------------------------------------------------------------------------
(* monitoring/tracer.py: one DecisionTracer, built without an event queue   *)
(* ("default") or with one ("stream"), called with the trace ids TraceIds.  *)

\* The most steps the caller logs into one trace, and the most events it
\* lets the queue hold.
MaxTraceLen == 2
MaxQueued == 4

TraceIds == {"trace-1", "trace-2"}

\* The steps the caller logs: one with two tool calls, one with none.
TracerSteps ==
    { AgentStep("triage", "triage_classification",
                << ToolCall("get_metrics", "data"), ToolCall("search_logs", "data") >>,
                3, 21),
      AgentStep("orchestrator", "timeout", << >>, 0, 0) }

TracerInit ==
    /\ RunIdle
    /\ tracer_default = NoTraces
    /\ tracer_stream = NoTraces
    /\ self_tracer \in {"default", "stream"}
    /\ messages = << >>
    /\ event_queue = << >>
    /\ op = NoCall

\* The tracer under test becomes traces; the other one is not touched.
TracerBecomes(traces) ==
    IF self_tracer = "stream"
    THEN tracer_stream' = traces /\ UNCHANGED tracer_default
    ELSE tracer_default' = traces /\ UNCHANGED tracer_stream

StartTraceCall ==
    \E trace_id \in TraceIds :
        /\ TracerBecomes(StartTrace(Traces(self_tracer), trace_id))
        /\ op' = [name |-> "start_trace", trace_id |-> trace_id]
        /\ UNCHANGED << run_vars, self_tracer, messages, event_queue >>

LogStepCall ==
    \E trace_id \in TraceIds, step \in TracerSteps :
        /\ Len(GetTrace(Traces(self_tracer), trace_id)) < MaxTraceLen
        /\ Len(event_queue) + Len(step.tool_calls) <= MaxQueued
        /\ TracerBecomes(LogStep(Traces(self_tracer), trace_id, step))
        /\ event_queue' = IF self_tracer = "stream"
                          THEN event_queue \o ToolCallEvents(step)
                          ELSE event_queue
        /\ op' = [name |-> "log_step", trace_id |-> trace_id, step |-> step]
        /\ UNCHANGED << run_vars, self_tracer, messages >>

GetTraceCall ==
    \E trace_id \in TraceIds :
        /\ op' = [name |-> "get_trace", trace_id |-> trace_id,
                  result |-> GetTrace(Traces(self_tracer), trace_id)]
        /\ UNCHANGED << run_vars, tracer_default, tracer_stream, self_tracer,
                        messages, event_queue >>

GetTotalTokensCall ==
    \E trace_id \in TraceIds :
        /\ op' = [name |-> "get_total_tokens", trace_id |-> trace_id,
                  result |-> GetTotalTokens(Traces(self_tracer), trace_id)]
        /\ UNCHANGED << run_vars, tracer_default, tracer_stream, self_tracer,
                        messages, event_queue >>

GetTotalCostCall ==
    \E trace_id \in TraceIds :
        /\ op' = [name |-> "get_total_cost", trace_id |-> trace_id,
                  result |-> GetTotalCost(Traces(self_tracer), trace_id)]
        /\ UNCHANGED << run_vars, tracer_default, tracer_stream, self_tracer,
                        messages, event_queue >>

TracerNext ==
    \/ StartTraceCall
    \/ LogStepCall
    \/ GetTraceCall
    \/ GetTotalTokensCall
    \/ GetTotalCostCall

TracerSpec == TracerInit /\ [][TracerNext]_vars

----------------------------------------------------------------------------
(* C21 *)

\* The tracer under test, before and after a step.
TracerBefore == IF self_tracer = "stream" THEN tracer_stream ELSE tracer_default
TracerAfter == IF self_tracer = "stream" THEN tracer_stream' ELSE tracer_default'

\* The steps a caller reads for trace_id: none when the id is not held.
StepsHeld(traces, trace_id) ==
    IF trace_id \in DOMAIN traces THEN traces[trace_id] ELSE << >>

\* Every trace but trace_id is what it was.
OthersKept(trace_id) ==
    /\ DOMAIN TracerAfter = DOMAIN TracerBefore \cup {trace_id}
    /\ \A k \in DOMAIN TracerBefore \ {trace_id} : TracerAfter[k] = TracerBefore[k]

\* The sum of field over the first n steps, counted from the last one down.
RECURSIVE TokensOfFirst(_, _)
TokensOfFirst(steps, n) ==
    IF n = 0 THEN 0 ELSE TokensOfFirst(steps, n - 1) + steps[n].tokens_used

RECURSIVE CostOfFirst(_, _)
CostOfFirst(steps, n) ==
    IF n = 0 THEN 0 ELSE CostOfFirst(steps, n - 1) + steps[n].cost_usd

\* C21: in any sequence of calls on a DecisionTracer, log_step appends
\* exactly one step at the end of the trace it names (creating the trace
\* when the id was never started) and leaves the earlier steps and every
\* other trace as they were; start_trace empties the trace it names and no
\* other; no other call changes a trace; get_trace of an id not held returns
\* the empty list; get_total_tokens and get_total_cost return the sums over
\* the steps get_trace returns.
C21_TracerAppendOnly ==
    [][ LET old == StepsHeld(TracerBefore, op'.trace_id)
            new == TracerAfter[op'.trace_id]
        IN /\ op'.name = "log_step" =>
                /\ OthersKept(op'.trace_id)
                /\ Len(new) = Len(old) + 1
                /\ new[Len(new)] = op'.step
                /\ SubSeq(new, 1, Len(old)) = old
           /\ op'.name = "start_trace" =>
                /\ OthersKept(op'.trace_id)
                /\ new = << >>
           /\ op'.name \in {"get_trace", "get_total_tokens", "get_total_cost"} =>
                TracerAfter = TracerBefore
           /\ op'.name = "get_trace" => op'.result = old
           /\ op'.name = "get_total_tokens" =>
                op'.result = TokensOfFirst(old, Len(old))
           /\ op'.name = "get_total_cost" =>
                op'.result = CostOfFirst(old, Len(old)) ]_vars

\* A log_step has just created the second trace while the first holds two
\* steps.
C21_Witness ==
    /\ op.name = "log_step"
    /\ op.trace_id = "trace-2"
    /\ "trace-1" \in DOMAIN tracer_default
    /\ Len(tracer_default["trace-1"]) = 2
    /\ Len(tracer_default["trace-2"]) = 1

----------------------------------------------------------------------------
(* C22 *)

\* The events a step has put on the queue.
Enqueued == SubSeq(event_queue', Len(event_queue) + 1, Len(event_queue'))

----------------------------------------------------------------------------
(* Two calls in flight on one IncidentAnalyzer: analyze_stream, as above,   *)
(* and a call of analyze with its own trace id.  The gateway answers every  *)
(* stage of the second call at once, in well-typed JSON, and its deadline   *)
(* does not expire; the steps of the two calls interleave at every await.   *)
(* call_history and tool_log keep recording the first call only.            *)

OtherTraceId == "trace-2"

\* The text the gateway returns to stage s of the second call.
OtherText(s) ==
    CASE s = "triage" -> Json([summary |-> Str("disk full")])
      [] s = "research" -> Json([root_cause |-> Str("log rotation off"),
                                 confidence |-> Num(80)])
      [] OTHER -> Json([remediation_steps |-> List(1),
                        requires_human_approval |-> Bool(TRUE)])

\* core.py 51-76: analyze() of the second call up to its first gateway call;
\* start_trace goes to the tracer self._tracer refers to.
OtherAnalyze ==
    /\ other.pc = "idle"
    /\ TracerBecomes(StartTrace(Traces(self_tracer), OtherTraceId))
    /\ other' = [other EXCEPT !.pc = "triage"]
    /\ UNCHANGED << path, pc, stage, tools_per_turn, iteration, tool_call_count,
                    pending, all_tool_calls, total_usage, response, call_history,
                    tool_log, self_tracer, messages, event_queue, delivered,
                    local_results, results, pipeline_error, deadline, abort, report,
                    outcome, op >>

\* core.py 288-334 and 99-113: a stage of the second call returns.  The
\* stage agents of the constructor log to the constructor's tracer (core.py
\* 47-49); after Remediation, _build_report reads the trace from the tracer
\* self._tracer refers to (core.py 141-147).
OtherStageReturns ==
    /\ other.pc \in StageSet
    /\ LET s == other.pc
           usage == AddUsage(NoUsage)
           step == AgentStep(s, StageAction(s), << >>, TotalTokens(usage), CostOf(usage))
           logged == LogStep(tracer_default, OtherTraceId, step)
           result == StageParse(s, OtherText(s)).result
       IN /\ tracer_default' = logged
          /\ messages' = Send(messages, s, NextStage(s), HandoffType(s, result),
                              result, OtherTraceId)
          /\ other' =
               IF s = "remediation"
               THEN [pc |-> "done",
                     logged |-> Append(other.logged, step),
                     agent_trace |->
                        GetTrace(IF self_tracer = "stream" THEN tracer_stream
                                 ELSE logged, OtherTraceId)]
               ELSE [other EXCEPT !.pc = NextStage(s),
                                  !.logged = Append(other.logged, step)]
    /\ UNCHANGED << path, pc, stage, tools_per_turn, iteration, tool_call_count,
                    pending, all_tool_calls, total_usage, response, call_history,
                    tool_log, tracer_stream, self_tracer, event_queue, delivered,
                    local_results, results, pipeline_error, deadline, abort, report,
                    outcome, op >>

ConcurrentNext ==
    \/ AnalyzeStream
    \/ GatewayAnswers
    \/ GatewayRaises
    \/ Deliver
    \/ OtherAnalyze
    \/ OtherStageReturns

ConcurrentSpec == Init /\ [][ConcurrentNext]_vars

----------------------------------------------------------------------------
(* C23 *)

\* C23: with analyze_stream and analyze in flight on one IncidentAnalyzer,
\* analyze_stream logs into the tracer made for its run and adds no step to
\* the constructor's tracer, and the trace of each report holds exactly the
\* steps its own run logged: the report of the stream run the trace of the
\* stream tracer, the report of the analyze run the steps its stages logged.
C23_EachRunItsOwnTrace ==
    /\ TraceId \notin DOMAIN tracer_default
    /\ GetTrace(tracer_default, OtherTraceId) \in {<< >>, other.logged}
    /\ report.built => report.agent_trace = GetTrace(tracer_stream, TraceId)
    /\ other.pc = "done" => other.agent_trace = other.logged

----------------------------------------------------------------------------
(* C24 *)

\* Where the steps of an agent stand in a report.
AgentRank(agent_name) ==
    CASE agent_name = "triage" -> 1
      [] agent_name = "research" -> 2
      [] agent_name = "remediation" -> 3
      [] OTHER -> 4

\* No gateway response of the run asked for a tool.
NoToolsRequested == \A i \in 1..Len(call_history) : call_history[i].answer # "tools"

\* C24: in every report the steps of Triage come before those of Research,
\* which come before those of Remediation; a step of the orchestrator
\* (timeout or error), if there is one, is the last step; and a run that
\* succeeds without any tool request has exactly three steps: the
\* classification, the findings, the proposal.
C24_ReportTraceOrder ==
    report.built =>
        LET t == report.agent_trace
        IN /\ \A i, j \in 1..Len(t) :
                 i < j => AgentRank(t[i].agent_name) <= AgentRank(t[j].agent_name)
           /\ \A i \in 1..Len(t) :
                 t[i].agent_name = "orchestrator" =>
                    (i = Len(t) /\ t[i].action \in {"timeout", "error"})
           /\ (abort = "none" /\ NoToolsRequested) =>
                 [i \in 1..Len(t) |-> t[i].action] =
                    << "triage_classification", "research_findings",
                       "remediation_proposal" >>

\* A report of a run aborted in Remediation, after Research has run tools:
\* steps of all three kinds and the orchestrator's.
C24_Witness ==
    /\ report.built
    /\ Len(report.agent_trace) >= 4
    /\ report.agent_trace[1].agent_name = "triage"
    /\ report.agent_trace[Len(report.agent_trace)].agent_name = "orchestrator"
    /\ \E i \in 1..Len(report.agent_trace) :
          /\ report.agent_trace[i].agent_name = "research"
          /\ report.agent_trace[i].tool_calls # << >>

----------------------------------------------------------------------------
(* C25 *)

\* C25: every gateway call of Triage offers exactly the schemas of
\* get_metrics and get_service_dependencies; every gateway call of the
\* Research loop (all but the call made once the limit is reached) offers
\* the five schemas of the registry; every gateway call of Remediation
\* offers exactly the schema of search_runbooks.
C25_ToolsOfferedPerStage ==
    \A i \in 1..Len(call_history) :
        LET call == call_history[i]
        IN /\ call.stage = "triage" =>
                call.tools = {"get_metrics", "get_service_dependencies"}
           /\ (call.stage = "research" /\ call.last_turn # "limit_reached") =>
                call.tools = {"search_logs", "get_metrics", "get_recent_deployments",
                              "get_service_dependencies", "search_runbooks"}
           /\ call.stage = "remediation" => call.tools = {"search_runbooks"}

\* Every stage has made a call after a round of tool results.
C25_Witness ==
    \A s \in StageSet :
        \E i \in 1..Len(call_history) :
            call_history[i].stage = s /\ call_history[i].last_turn = "tool_results"

----------------------------------------------------------------------------
(* protocols/a2a.py: one MessageBus, called with any sequence of send,      *)
(* get_messages and get_messages_for_agent.                                 *)

\* The most messages the caller sends.
MaxMessages == 3

BusAgents == {"research", "remediation"}

\* a2a.py 49-51
GetMessages(msgs, trace_id) == SelectSeq(msgs, LAMBDA m : m.trace_id = trace_id)

\* A query for an agent that does not look at the trace id.
GetMessagesForAgentAnyTrace(msgs, agent_name, trace_id) ==
    SelectSeq(msgs, LAMBDA m : m.to_agent = agent_name)

\* a2a.py 53-58
GetMessagesForAgent(msgs, agent_name, trace_id) ==
    SelectSeq(msgs, LAMBDA m : m.to_agent = agent_name /\ m.trace_id = trace_id)

BusInit ==
    /\ RunIdle
    /\ tracer_default = NoTraces
    /\ tracer_stream = NoTraces
    /\ self_tracer = "default"
    /\ messages = << >>
    /\ event_queue = << >>
    /\ op = NoCall

SendCall ==
    \E to_agent \in BusAgents, trace_id \in TraceIds :
        /\ Len(messages) < MaxMessages
        /\ messages' = Send(messages, "triage", to_agent, "delegate", EmptyDict, trace_id)
        /\ op' = [name |-> "send", to_agent |-> to_agent, trace_id |-> trace_id]
        /\ UNCHANGED << run_vars, tracer_default, tracer_stream, self_tracer,
                        event_queue >>

GetMessagesCall ==
    \E trace_id \in TraceIds :
        /\ op' = [name |-> "get_messages", trace_id |-> trace_id,
                  result |-> GetMessages(messages, trace_id)]
        /\ UNCHANGED << run_vars, tracer_default, tracer_stream, self_tracer,
                        messages, event_queue >>

GetMessagesForAgentCall ==
    \E agent_name \in BusAgents \cup {"orchestrator"}, trace_id \in TraceIds :
        /\ op' = [name |-> "get_messages_for_agent", agent_name |-> agent_name,
                  trace_id |-> trace_id,
                  result |-> GetMessagesForAgent(messages, agent_name, trace_id)]
        /\ UNCHANGED << run_vars, tracer_default, tracer_stream, self_tracer,
                        messages, event_queue >>

BusNext ==
    \/ SendCall
    \/ GetMessagesCall
    \/ GetMessagesForAgentCall

BusSpec == BusInit /\ [][BusNext]_vars

----------------------------------------------------------------------------
(* C26 *)

\* The k-th of the positions in set, counted from the lowest.
KthOf(set, k) == CHOOSE i \in set : Cardinality({j \in set : j <= i}) = k

\* result holds the messages of the log at the positions in set, in the
\* order of the log, each once per position.
IsTheLogAt(result, set) ==
    /\ Len(result) = Cardinality(set)
    /\ \A k \in 1..Len(result) : result[k] = messages'[KthOf(set, k)]

\* C26: in any sequence of calls on a MessageBus, send appends the message
\* it was given and removes nothing; get_messages(trace_id) returns exactly
\* the messages sent with that trace id, in the order sent, duplicates
\* kept; get_messages_for_agent(agent, trace_id) returns exactly those of
\* them addressed to the agent, in order; and neither query changes the log.
C26_BusQueriesFilterInOrder ==
    [][ /\ op'.name = "send" =>
             /\ Len(messages') = Len(messages) + 1
             /\ SubSeq(messages', 1, Len(messages)) = messages
             /\ messages'[Len(messages')].to_agent = op'.to_agent
             /\ messages'[Len(messages')].trace_id = op'.trace_id
        /\ op'.name \in {"get_messages", "get_messages_for_agent"} =>
             messages' = messages
        /\ op'.name = "get_messages" =>
             IsTheLogAt(op'.result,
                        {i \in 1..Len(messages) : messages[i].trace_id = op'.trace_id})
        /\ op'.name = "get_messages_for_agent" =>
             IsTheLogAt(op'.result,
                        {i \in 1..Len(messages) :
                            /\ messages[i].trace_id = op'.trace_id
                            /\ messages[i].to_agent = op'.agent_name}) ]_vars

\* A query for one agent on a log that holds a duplicate for that agent and
\* trace, a message of the other trace and a message for the other agent in
\* between or around.
C26_Witness ==
    /\ op.name = "get_messages_for_agent"
    /\ Len(op.result) = 2
    /\ op.result[1] = op.result[2]
    /\ Len(messages) = 3

----------------------------------------------------------------------------
(* agent/agents/__init__.py: extract_json on a text read token by token.    *)
(* A text is a sequence of                                                  *)
(*   "fence"   three backticks      "tick"    one backtick                  *)
(*   "json"    the letters json     "ws"      whitespace                    *)
(*   "lbrace"  an opening brace     "rbrace"  a closing brace               *)
(*   "member"  an object member with a plain value                          *)
(*   "quote"   the quote that opens or closes the string value of a member  *)
(* The letters json outside a fence read as any other word does.            *)
(* Backticks are read greedily from the left, as the regular expression     *)
(* reads them: no single backtick stands right before "fence" and no three  *)
(* single backticks stand in a row.                                         *)

\* The most tokens of a text
MaxTextLen == 5

Tokens == {"fence", "tick", "json", "ws", "lbrace", "rbrace", "member", "quote"}

Texts ==
    { t \in UNION { [1..n -> Tokens] : n \in 0..MaxTextLen } :
        /\ \A i \in 1..(Len(t) - 1) : ~(t[i] = "tick" /\ t[i + 1] = "fence")
        /\ \A i \in 1..(Len(t) - 2) : ~(t[i] = "tick" /\ t[i + 1] = "tick" /\ t[i + 2] = "tick") }

\* text without its leading whitespace
RECURSIVE LStrip(_)
LStrip(text) ==
    IF text # << >> /\ Head(text) = "ws" THEN LStrip(Tail(text)) ELSE text

\* text without its trailing tokens of the set chars
RECURSIVE RStrip(_, _)
RStrip(text, chars) ==
    IF text # << >> /\ text[Len(text)] \in chars
    THEN RStrip(SubSeq(text, 1, Len(text) - 1), chars)
    ELSE text

\* str.strip()
Strip(text) == RStrip(LStrip(text), {"ws"})

\* re.sub of the fence pattern: three backticks, the tag json if it follows,
\* and the whitespace after them, replaced by nothing
RECURSIVE ReSubFences(_)
ReSubFences(text) ==
    IF text = << >> THEN << >>
    ELSE IF Head(text) = "fence"
         THEN LET after == Tail(text)
                  untagged == IF after # << >> /\ Head(after) = "json"
                              THEN Tail(after) ELSE after
              IN ReSubFences(LStrip(untagged))
         ELSE << Head(text) >> \o ReSubFences(Tail(text))

\* str.find(ch) + 1 and str.rfind(ch) + 1: 0 when ch is not in the text
Find(text, ch) ==
    IF \E i \in 1..Len(text) : text[i] = ch
    THEN CHOOSE i \in 1..Len(text) :
            text[i] = ch /\ \A k \in 1..(i - 1) : text[k] # ch
    ELSE 0

RFind(text, ch) ==
    IF \E i \in 1..Len(text) : text[i] = ch
    THEN CHOOSE i \in 1..Len(text) :
            text[i] = ch /\ \A k \in (i + 1)..Len(text) : text[k] # ch
    ELSE 0

\* body is a list of members: plain ones, and quoted strings that close
RECURSIVE Members(_)
Members(body) ==
    IF body = << >> THEN TRUE
    ELSE IF Head(body) \in {"ws", "member"} THEN Members(Tail(body))
    ELSE IF Head(body) = "quote"
         THEN LET rest == Tail(body)
                  close == Find(rest, "quote")
              IN close > 0 /\ Members(SubSeq(rest, close + 1, Len(rest)))
         ELSE FALSE

\* The text is one JSON object, whitespace around it allowed.
IsJsonObject(text) ==
    LET u == Strip(text)
    IN /\ Len(u) >= 2
       /\ u[1] = "lbrace"
       /\ u[Len(u)] = "rbrace"
       /\ Members(SubSeq(u, 2, Len(u) - 1))

\* The text is one JSON string.
IsJsonString(text) ==
    LET u == Strip(text)
    IN /\ Len(u) >= 2
       /\ u[1] = "quote"
       /\ u[Len(u)] = "quote"
       /\ \A i \in 2..(Len(u) - 1) : u[i] # "quote"

\* The object a text denotes: its tokens without the whitespace outside
\* strings.
RECURSIVE ObjectOf(_, _)
ObjectOf(text, in_string) ==
    IF text = << >> THEN << >>
    ELSE IF Head(text) = "quote"
         THEN << "quote" >> \o ObjectOf(Tail(text), ~in_string)
    ELSE IF Head(text) = "ws" /\ ~in_string
         THEN ObjectOf(Tail(text), in_string)
    ELSE << Head(text) >> \o ObjectOf(Tail(text), in_string)

\* json.loads: "dict" with the object, "other" for a value that is no dict,
\* "error" when it raises JSONDecodeError.
Loads(text) ==
    IF IsJsonObject(text) THEN Extracted("dict", ObjectOf(text, FALSE))
    ELSE IF IsJsonString(text) THEN Extracted("other", << >>)
    ELSE Extracted("error", << >>)

\* The fallback without its try: the JSONDecodeError of the slice gets out.
ExtractJsonTextSliceUncaught(text) ==
    LET stripped == RStrip(Strip(ReSubFences(text)), {"tick", "fence"})
        start == Find(stripped, "lbrace")
        end == RFind(stripped, "rbrace")
    IN IF Loads(stripped).kind # "error" THEN Loads(stripped)
       ELSE IF start > 0 /\ end > start
            THEN Loads(SubSeq(stripped, start, end))
            ELSE Extracted("none", << >>)

\* __init__.py 10-30: extract_json.  "none" is None.
ExtractJsonText(text) ==
    LET stripped == RStrip(Strip(ReSubFences(text)), {"tick", "fence"})
        start == Find(stripped, "lbrace")
        end == RFind(stripped, "rbrace")
    IN IF Loads(stripped).kind # "error" THEN Loads(stripped)
       ELSE IF start > 0 /\ end > start /\ Loads(SubSeq(stripped, start, end)).kind # "error"
            THEN Loads(SubSeq(stripped, start, end))
            ELSE Extracted("none", << >>)

\* The text inside a markdown fence, with the tag json or without.
Fence(text, tagged) ==
    (IF tagged THEN << "fence", "json", "ws" >> ELSE << "fence", "ws" >>) \o text \o << "ws", "fence" >>

\* A caller holds a text.
ExtractInit ==
    /\ RunIdle
    /\ tracer_default = NoTraces
    /\ tracer_stream = NoTraces
    /\ self_tracer = "default"
    /\ messages = << >>
    /\ event_queue = << >>
    /\ op \in { [name |-> "text", text |-> t] : t \in Texts }

\* The caller passes the text to extract_json.
ExtractJsonCall ==
    /\ op.name = "text"
    /\ op' = [name |-> "extract_json", text |-> op.text,
              result |-> ExtractJsonText(op.text)]
    /\ UNCHANGED << run_vars, tracer_default, tracer_stream, self_tracer, messages,
                    event_queue >>

\* The caller passes the text inside a fence.
ExtractJsonFencedCall ==
    /\ op.name = "text"
    /\ \E tagged \in BOOLEAN :
          op' = [name |-> "extract_json_fenced", text |-> op.text, tagged |-> tagged,
                 result |-> ExtractJsonText(Fence(op.text, tagged))]
    /\ UNCHANGED << run_vars, tracer_default, tracer_stream, self_tracer, messages,
                    event_queue >>

ExtractNext ==
    \/ ExtractJsonCall
    \/ ExtractJsonFencedCall

ExtractSpec == ExtractInit /\ [][ExtractNext]_vars

----------------------------------------------------------------------------
(* C27 *)

----------------------------------------------------------------------------
(* rag/engine.py: RAGEngine.search.  A cosine distance is a whole number of *)
(* 0.00002, so that the similarity 1 - distance / 2 is a whole number of    *)
(* 0.00001; a reported similarity_score, rounded to four places, is a whole *)
(* number of 0.0001.                                                        *)

\* The most results a query returns, and how far from a threshold, in
\* steps of 0.00001, the similarities of the collection lie.
MaxResults == 2
Margin == 6

\* The distances the collection returns: an identical and an opposite
\* chunk, and chunks whose similarity is near 0.7 or near 0.4.
Distances ==
    {0, 100000} \cup { 30000 + d : d \in (0 - Margin)..Margin }
                \cup { 60000 + d : d \in (0 - Margin)..Margin }

\* engine.py 71: similarity = 1.0 - (distance / 2.0)
Similarity(distance) == 100000 - distance

\* engine.py 29-34, on a similarity in steps of 0.00001
ClassifyConfidence(score) ==
    IF score > 70000 THEN "high"
    ELSE IF score >= 40000 THEN "medium"
    ELSE "low"

\* engine.py 79: round(similarity, 4), in steps of 0.0001.  A similarity
\* half way between two such values goes up or down by its binary form:
\* half_up says which.
Round4(similarity, half_up) ==
    LET down == similarity \div 10
        rest == similarity % 10
    IN IF rest < 5 \/ (rest = 5 /\ ~half_up) THEN down ELSE down + 1

\* engine.py 68-83: the RAGResult built for one distance
RAGResult(distance, half_up) ==
    [similarity_score |-> Round4(Similarity(distance), half_up),
     confidence |-> ClassifyConfidence(Similarity(distance))]

\* A caller holds a collection that answers the query with these distances.
RagInit ==
    /\ RunIdle
    /\ tracer_default = NoTraces
    /\ tracer_stream = NoTraces
    /\ self_tracer = "default"
    /\ messages = << >>
    /\ event_queue = << >>
    /\ op \in { [name |-> "query", distances |-> d] :
                  d \in UNION { [1..n -> Distances] : n \in 0..MaxResults } }

\* engine.py 50-93: search
SearchCall ==
    /\ op.name = "query"
    /\ \E half_up \in [1..Len(op.distances) -> BOOLEAN] :
          op' = [name |-> "search", distances |-> op.distances,
                 results |-> [i \in 1..Len(op.distances) |->
                                 RAGResult(op.distances[i], half_up[i])]]
    /\ UNCHANGED << run_vars, tracer_default, tracer_stream, self_tracer, messages,
                    event_queue >>

RagNext == SearchCall

RagSpec == RagInit /\ [][RagNext]_vars

----------------------------------------------------------------------------
(* C28 *)

\* C28: the confidence of every result of a runbook search is the bucket of
\* the similarity_score the result reports: high above 0.7, medium from 0.4
\* to 0.7, low below 0.4.
C28_ConfidenceIsBucketOfReportedScore ==
    op.name = "search" =>
        \A i \in 1..Len(op.results) :
            op.results[i].confidence =
                IF op.results[i].similarity_score > 7000 THEN "high"
                ELSE IF op.results[i].similarity_score >= 4000 THEN "medium"
                ELSE "low"

----------------------------------------------------------------------------
(* C29 *)

\* The steps agent s has logged in this run, in order.
StepsOf(s) == SelectSeq(RunTrace, LAMBDA step : step.agent_name = s)

\* The ToolCalls execute has returned to stage s, in order.
ExecutedBy(s) ==
    LET returned == SelectSeq(tool_log, LAMBDA e : e.stage = s /\ e.outcome # "raise")
    IN [i \in 1..Len(returned) |->
           [tool_name |-> returned[i].tool, result |-> returned[i].outcome]]

\* The tokens of the responses the gateway has returned to stage s.
TokensUsedBy(s) ==
    Cardinality({i \in 1..Len(call_history) :
                    /\ call_history[i].stage = s
                    /\ call_history[i].answer \in {"tools", "text"}})
        * (InputTokens + OutputTokens)

\* C29: a Triage or Remediation run that completes has logged exactly one
\* step, triage_classification or remediation_proposal, and its tool_calls
\* are the tool calls the stage executed, in order.  Research logs one step
\* tool_call:<name> with zero tokens and that one ToolCall per executed tool
\* call, in order, and when it completes exactly one research_findings step
\* after them, its last, with the token usage of the whole stage.
C29_StepsLoggedPerStage ==
    /\ \A s \in {"triage", "remediation"} :
          /\ ~StageOver(s) => StepsOf(s) = << >>
          /\ StageOver(s) =>
                /\ Len(StepsOf(s)) = 1
                /\ StepsOf(s)[1].action = (IF s = "triage" THEN "triage_classification"
                                           ELSE "remediation_proposal")
                /\ StepsOf(s)[1].tool_calls = ExecutedBy(s)
    /\ LET logged == StepsOf("research")
           executed == ExecutedBy("research")
       IN /\ Len(logged) = Len(executed) + (IF StageOver("research") THEN 1 ELSE 0)
          /\ \A i \in 1..Len(executed) :
                /\ logged[i].action = "tool_call:" \o executed[i].tool_name
                /\ logged[i].tool_calls = << executed[i] >>
                /\ logged[i].tokens_used = 0
          /\ StageOver("research") =>
                /\ logged[Len(logged)].action = "research_findings"
                /\ logged[Len(logged)].tokens_used = TokensUsedBy("research")

\* All three stages have completed, each after executing tools.
C29_Witness ==
    /\ \A s \in StageSet : StageOver(s) /\ Len(ExecutedBy(s)) >= 2
    /\ Len(StepsOf("research")) = Len(ExecutedBy("research")) + 1

----------------------------------------------------------------------------
(* The streaming path alone, with a consumer that keeps draining: an event  *)
(* on the queue is taken.  As in LiveSpec no fairness is asked of the       *)
(* gateway or of the tools, so a call may stay outstanding for ever;        *)
(* analyze_stream arms no timer (core.py 162-286 holds no wait_for), so     *)
(* DeadlineExpires and CancelPipeline are no steps of this path.            *)

NextStream ==
    \/ AnalyzeStream
    \/ GatewayRequestsTools
    \/ GatewayAnswers
    \/ GatewayAnswersForced
    \/ GatewayRaises
    \/ ExecuteTool
    \/ Deliver

StreamLiveSpec == Init /\ [][NextStream]_vars /\ WF_vars(Deliver)

----------------------------------------------------------------------------
(* C30 *)

\* analyze_stream has yielded analysis_complete.
AnalysisCompleteDelivered ==
    \E i \in 1..Len(delivered) : delivered[i].event_type = "analysis_complete"

\* C30: every analyze_stream run whose consumer keeps draining eventually
\* delivers analysis_complete, also when a gateway call or a tool call never
\* returns: the deadline that bounds analyze bounds the streaming path too.
C30_StreamEventuallyCompletes ==
    (path = "stream") ~> AnalysisCompleteDelivered

----------------------------------------------------------------------------
(* C31 *)

\* The ToolCalls of the steps of a trace, in order.
RECURSIVE ToolCallsIn(_)
ToolCallsIn(steps) ==
    IF steps = << >> THEN << >>
    ELSE Head(steps).tool_calls \o ToolCallsIn(Tail(steps))

\* C31: in every report, also that of a run aborted by a stage error or by
\* the deadline, the ToolCalls of the steps of the trace are the tool
\* executions of the run, each in exactly one step, and total_tokens is the
\* sum of the usage of every response the gateway returned during the run.
C31_TraceHoldsEveryToolCallAndToken ==
    report.built =>
        /\ ToolCallsIn(report.agent_trace) =
              ExecutedBy("triage") \o ExecutedBy("research") \o ExecutedBy("remediation")
        /\ report.total_tokens =
              TokensUsedBy("triage") + TokensUsedBy("research")
                 + TokensUsedBy("remediation")

----------------------------------------------------------------------------
(* C32 *)

\* C32: a stage runs the handler of no tool outside the subset it offers:
\* Triage only get_metrics and get_service_dependencies, Remediation only
\* search_runbooks, whatever registered name a gateway response asks for.
C32_ExecutesOnlyOfferedTools ==
    \A i \in 1..Len(tool_log) :
        LET e == tool_log[i]
        IN e.outcome \in {"data", "raise"} =>
              /\ e.stage = "triage" =>
                    e.tool \in {"get_metrics", "get_service_dependencies"}
              /\ e.stage = "remediation" => e.tool = "search_runbooks"

----------------------------------------------------------------------------
(* C33 *)

\* C33: when analyze_stream has finished, with the report built or with
\* _build_report raising, self._tracer is again the tracer the constructor
\* made, the one the constructor's stage agents log to.
C33_TracerRestoredAfterStream ==
    (path = "stream" /\ outcome \in {"returned", "raised"}) => self_tracer = "default"

----------------------------------------------------------------------------
(* C34 *)

\* The positions of the delivered events of a type.
DeliveredOf(event_type) ==
    {i \in 1..Len(delivered) : delivered[i].event_type = event_type}

\* What the consumer of a run whose stage raised has received, once the
\* call is over: one error event with the message, nothing about the
\* failing stage's completion or a later stage, and one last
\* analysis_complete whose trace ends with the orchestrator's error step.
FailedStreamDelivery ==
    /\ Cardinality(DeliveredOf("error")) = 1
    /\ \A i \in DeliveredOf("error") :
          delivered[i].data = [message |-> Str(pipeline_error)]
    /\ \A i \in DeliveredOf("agent_complete") :
          StageIndex(delivered[i].agent_name) < StageIndex(stage)
    /\ \A i \in DeliveredOf("agent_start") :
          StageIndex(delivered[i].agent_name) <= StageIndex(stage)
    /\ DeliveredOf("analysis_complete") = {Len(delivered)}
    /\ LET t == delivered[Len(delivered)].report.agent_trace
       IN /\ t # << >>
          /\ t[Len(t)].agent_name = "orchestrator"
          /\ t[Len(t)].action = "error"

\* C34: when a stage raises during a streaming run, the consumer receives
\* exactly one error event carrying the failure message, no agent_complete
\* of the failing stage and no agent_start of a later stage, and then
\* exactly one analysis_complete whose report's trace ends with the
\* orchestrator's error step.
C34_StageFailureIsDelivered ==
    (path = "stream" /\ pipeline_error # "none" /\ outcome \in {"returned", "raised"})
        => FailedStreamDelivery

----------------------------------------------------------------------------
(* C35 *)

\* The positions of the sentinel in the queue.
SentinelsQueued == {i \in 1..Len(event_queue) : event_queue[i] = Sentinel}

\* The events of the background task in the order it enqueued them: those
\* the consumer has received, then those still queued, the sentinel and the
\* generator's own analysis_complete left out.
EventStream ==
    SelectSeq(delivered, LAMBDA e : e.event_type # "analysis_complete")
       \o SelectSeq(event_queue, LAMBDA e : e # Sentinel)

EventStreamAfter ==
    SelectSeq(delivered', LAMBDA e : e.event_type # "analysis_complete")
       \o SelectSeq(event_queue', LAMBDA e : e # Sentinel)

IsPrefixOf(s, t) == Len(s) <= Len(t) /\ SubSeq(t, 1, Len(s)) = s

\* The sentinel is queued last and once the task has ended, and only then;
\* the consumer never receives it; a call that is over has emptied the queue.
SentinelState ==
    path = "stream" =>
        /\ SentinelsQueued \subseteq {Len(event_queue)}
        /\ pc = "stopped" <=>
              (SentinelsQueued # {} \/ outcome \in {"returned", "raised"})
        /\ \A i \in 1..Len(delivered) : delivered[i] # Sentinel
        /\ outcome \in {"returned", "raised"} => event_queue = << >>

\* Delivery moves events from the queue to the consumer in order, none lost
\* and none repeated, and nothing is enqueued once the task has ended.
SentinelStep ==
    /\ IsPrefixOf(EventStream, EventStreamAfter)
    /\ (path = "stream" /\ pc = "stopped") =>
          /\ Len(event_queue') <= Len(event_queue)
          /\ EventStreamAfter = EventStream

\* C35: in a streaming run the background task enqueues the sentinel exactly
\* once, as the last item it ever enqueues, when it succeeds and when it
\* fails; the sentinel is never delivered to the consumer, and the events
\* enqueued before it are delivered exactly once each, in enqueue order.
C35_SentinelOnceAndLast == [] SentinelState /\ [][SentinelStep]_vars

\* A failed streaming run drained to the end, the error event delivered.
C35_Witness ==
    /\ path = "stream"
    /\ outcome = "returned"
    /\ pipeline_error # "none"
    /\ Len(EventStream) >= 3
    /\ event_queue = << >>

----------------------------------------------------------------------------
(* C36 *)

\* The delivered tool_call event at position i lies inside the bracket of
\* its stage: after the stage's agent_start, before its agent_complete and
\* before the agent_start of every later stage.
InsideItsStage(i) ==
    LET s == delivered[i].agent_name
    IN /\ \E j \in 1..(i - 1) :
             /\ delivered[j].event_type = "agent_start"
             /\ delivered[j].agent_name = s
       /\ \A j \in 1..Len(delivered) :
             /\ (delivered[j].event_type = "agent_complete"
                   /\ delivered[j].agent_name = s) => i < j
             /\ (delivered[j].event_type = "agent_start"
                   /\ StageIndex(delivered[j].agent_name) > StageIndex(s)) => i < j

----------------------------------------------------------------------------
(* C37 *)

\* From the moment the deadline has fired the pipeline does nothing: no
\* gateway call, no tool call, no message, and the only step the trace
\* gains is the orchestrator's own timeout step, logged by analyze.
AbandonedPipelineIsStill ==
    (path = "analyze" /\ deadline \in {"fired", "handled"}) =>
        /\ call_history' = call_history
        /\ tool_log' = tool_log
        /\ messages' = messages
        /\ \/ tracer_default' = tracer_default
           \/ /\ deadline = "fired"
              /\ tracer_default' =
                    LogStep(tracer_default, TraceId,
                            OrchestratorStep(ExceptClause("TimeoutError")))

\* The report of a run that timed out shows the trace as it stays.
TimedOutReportIsFinal ==
    (path = "analyze" /\ deadline = "handled" /\ report.built) =>
        report.agent_trace = GetTrace(tracer_default, TraceId)

\* C37: after analyze has returned because the deadline expired, the
\* abandoned pipeline does nothing more: it starts no gateway or tool call,
\* appends no step to the run's trace and sends no message under the run's
\* trace id, so the trace in the report stays the run's final trace.
C37_NothingAfterDeadline ==
    [] TimedOutReportIsFinal /\ [][AbandonedPipelineIsStill]_vars

\* A run abandoned in the middle: analyze has returned its degraded report
\* after gateway calls and a tool execution, with work still pending.
C37_Witness ==
    /\ path = "analyze"
    /\ deadline = "handled"
    /\ report.built
    /\ Len(call_history) >= 2
    /\ tool_log # << >>
    /\ stage # "remediation"

----------------------------------------------------------------------------
(* C38 *)

\* The ids of the blocks of a type in a turn, in order.
BlockIds(turn, type) ==
    LET kept == SelectSeq(turn.content, LAMBDA b : b.type = type)
    IN [j \in 1..Len(kept) |-> kept[j].id]

\* Every assistant turn of msgs with tool_use blocks is followed at once by a
\* user turn made of the tool_results of the same ids in the same order.
ToolUsesAnswered(msgs) ==
    \A k \in 1..Len(msgs) :
        (msgs[k].role = "assistant" /\ BlockIds(msgs[k], "tool_use") # << >>) =>
            /\ k < Len(msgs)
            /\ msgs[k + 1].role = "user"
            /\ \A j \in 1..Len(msgs[k + 1].content) :
                  msgs[k + 1].content[j].type = "tool_result"
            /\ BlockIds(msgs[k + 1], "tool_result") = BlockIds(msgs[k], "tool_use")

\* C38: in every gateway call of a stage's agent loop each assistant turn
\* with tool_use blocks is immediately followed by one user turn holding
\* exactly one tool_result per tool_use block, same ids, same order; and from
\* one call of a stage to its next the conversation only grows at its end.
C38_ConversationWellFormed ==
    \A i \in 1..Len(call_history) :
        /\ ToolUsesAnswered(call_history[i].messages)
        /\ \A j \in (i + 1)..Len(call_history) :
              call_history[j].stage = call_history[i].stage =>
                 /\ IsPrefixOf(call_history[i].messages, call_history[j].messages)
                 /\ Len(call_history[i].messages) < Len(call_history[j].messages)

\* A gateway call whose conversation holds two assistant turns of two or
\* more tool_use blocks each, one of them answered by an unknown-tool result.
C38_Witness ==
    \E i \in 1..Len(call_history) :
        LET msgs == call_history[i].messages
        IN /\ Cardinality({k \in 1..Len(msgs) :
                             Len(BlockIds(msgs[k], "tool_use")) >= 2}) >= 2
           /\ \E k \in 1..Len(tool_log) :
                 /\ tool_log[k].stage = call_history[i].stage
                 /\ tool_log[k].after_call < i
                 /\ tool_log[k].outcome # "data"

----------------------------------------------------------------------------
(* api/routes.py: the /analyze and /analyze/stream handlers and the          *)
(* sentinel_active_analyses gauge.  op holds the gauge and, per request,    *)
(* the route taken, the position of its handler and the events sent.        *)

MaxRequests == 2

MaxStreamEvents == 2

Requests == 1..MaxRequests

NoRequest == [route |-> "none", phase |-> "idle", events |-> 0, ended |-> "no"]

ApiInit ==
    /\ RunIdle
    /\ tracer_default = NoTraces
    /\ tracer_stream = NoTraces
    /\ self_tracer = "default"
    /\ messages = << >>
    /\ event_queue = << >>
    /\ op = [name |-> "api", sentinel_active_analyses |-> 0,
             requests |-> [r \in Requests |-> NoRequest]]

\* The gauge moved by d and request r now as given.
ApiStep(r, d, request) ==
    /\ op' = [op EXCEPT !.sentinel_active_analyses = @ + d, !.requests[r] = request]
    /\ UNCHANGED << run_vars, tracer_default, tracer_stream, self_tracer, messages,
                    event_queue >>

\* routes.py 25-34: analyze_incident up to `await analyzer.analyze(alert)`
AnalyzeIncidentBegins(r) ==
    /\ op.requests[r].phase = "idle"
    /\ ApiStep(r, 1, [NoRequest EXCEPT !.route = "analyze", !.phase = "awaiting"])

\* routes.py 34-40: analyze returns or raises, or the request is cancelled
\* while the handler awaits it; the finally clause runs in each case.
AnalyzeIncidentEnds(r) ==
    /\ op.requests[r].route = "analyze"
    /\ op.requests[r].phase = "awaiting"
    /\ \E ended \in {"returned", "raised", "cancelled"} :
          ApiStep(r, -1, [op.requests[r] EXCEPT !.phase = "done", !.ended = ended])

\* routes.py 43-75: analyze_incident_stream, the whole handler: the gauge is
\* incremented, the generator object is created and handed to the
\* StreamingResponse; none of the generator's body has run.
AnalyzeIncidentStreamReturns(r) ==
    /\ op.requests[r].phase = "idle"
    /\ ApiStep(r, 1, [NoRequest EXCEPT !.route = "stream", !.phase = "created"])

\* routes.py 54-57: the response asks the generator for its first item; the
\* body enters the try block and waits for the analyzer's first event.
EventGeneratorStarts(r) ==
    /\ op.requests[r].route = "stream"
    /\ op.requests[r].phase = "created"
    /\ ApiStep(r, 0, [op.requests[r] EXCEPT !.phase = "iterating"])

\* routes.py 56-68: one event of the analyzer is sent to the client
EventGeneratorYields(r) ==
    /\ op.requests[r].route = "stream"
    /\ op.requests[r].phase = "iterating"
    /\ op.requests[r].events < MaxStreamEvents
    /\ ApiStep(r, 0, [op.requests[r] EXCEPT !.events = @ + 1])

\* routes.py 55-70: the started generator ends: the analyzer's stream is
\* exhausted, or it raises, or the client disconnects and the generator is
\* cancelled or closed; the finally clause runs in each case.
EventGeneratorEnds(r) ==
    /\ op.requests[r].route = "stream"
    /\ op.requests[r].phase = "iterating"
    /\ \E ended \in {"exhausted", "raised", "disconnected"} :
          ApiStep(r, -1, [op.requests[r] EXCEPT !.phase = "done", !.ended = ended])

\* routes.py 52-75: the client disconnects before the response has asked the
\* generator for its first item.  The generator is dropped unstarted: closing
\* a generator whose body never began runs none of it, so the try block is
\* never entered and its finally clause never runs.
ClientDisconnectsBeforeIteration(r) ==
    /\ op.requests[r].route = "stream"
    /\ op.requests[r].phase = "created"
    /\ ApiStep(r, 0, [op.requests[r] EXCEPT !.phase = "done",
                                            !.ended = "disconnected"])

ApiNext ==
    \E r \in Requests :
        \/ AnalyzeIncidentBegins(r)
        \/ AnalyzeIncidentEnds(r)
        \/ AnalyzeIncidentStreamReturns(r)
        \/ EventGeneratorStarts(r)
        \/ EventGeneratorYields(r)
        \/ EventGeneratorEnds(r)
        \/ ClientDisconnectsBeforeIteration(r)

ApiSpec == ApiInit /\ [][ApiNext]_vars

----------------------------------------------------------------------------
(* C39 *)

\* The requests that have begun and not ended.
ActiveRequests == {r \in Requests : op.requests[r].phase \notin {"idle", "done"}}

\* C39: the gauge sentinel_active_analyses is incremented once per /analyze
\* or /analyze/stream request and decremented once when that request ends,
\* on success, on failure and when the streaming client disconnects before
\* or during the iteration of the event generator: it counts the requests
\* in progress and is back at its prior value when none is.
C39_GaugeCountsActiveRequests ==
    op.name = "api" => op.sentinel_active_analyses = Cardinality(ActiveRequests)

----------------------------------------------------------------------------
(* rag/ingest.py: _chunk_text.  A text is a sequence of characters, "a" or  *)
(* the blank; op holds the arguments and the locals of the call.            *)

MaxChunkText == 4

MaxChunkSize == 3

MaxOverlap == 3

MaxChunks == 4

Characters == {"a", " "}

ChunkTexts == UNION { [1..n -> Characters] : n \in 0..MaxChunkText }

\* Python's text[start:end]: a negative index counts from the end, and both
\* ends are clamped to the text.
Slice(text, start, end) ==
    LET n == Len(text)
        Index(i) == IF i < 0 THEN (IF i + n < 0 THEN 0 ELSE i + n)
                    ELSE (IF i > n THEN n ELSE i)
    IN IF Index(start) < Index(end) THEN SubSeq(text, Index(start) + 1, Index(end))
       ELSE << >>

\* str.strip(): the text without its leading and trailing blanks
StripBlanks(text) ==
    LET solid == {i \in 1..Len(text) : text[i] # " "}
    IN IF solid = {} THEN << >>
       ELSE SubSeq(text, CHOOSE i \in solid : \A j \in solid : i <= j,
                         CHOOSE i \in solid : \A j \in solid : i >= j)

\* From this start down every slice is empty and stays empty: the model
\* holds start there.
StartFloor(text, chunk_size) == 0 - (Len(text) + chunk_size)

\* ingest.py 25-28: _chunk_text is called; chunk_size >= 1 and overlap >= 0
ChunkInit ==
    /\ RunIdle
    /\ tracer_default = NoTraces
    /\ tracer_stream = NoTraces
    /\ self_tracer = "default"
    /\ messages = << >>
    /\ event_queue = << >>
    /\ op \in { [name |-> "chunking", text |-> t, chunk_size |-> c, overlap |-> o,
                 start |-> 0, chunks |-> << >>, pass |-> 0] :
                  t \in ChunkTexts, c \in 1..MaxChunkSize, o \in 0..MaxOverlap }

\* ingest.py 29-34: one pass of the while loop.  chunks keeps the first
\* MaxChunks chunks appended, and pass is the parity of the passes made.
ChunkLoopPass ==
    /\ op.name = "chunking"
    /\ op.start < Len(op.text)
    /\ LET end == op.start + op.chunk_size
           chunk == Slice(op.text, op.start, end)
           next == end - op.overlap
           floor == StartFloor(op.text, op.chunk_size)
       IN op' = [op EXCEPT
                   !.chunks = IF StripBlanks(chunk) # << >> /\ Len(@) < MaxChunks
                              THEN Append(@, StripBlanks(chunk)) ELSE @,
                   !.start = IF next < floor THEN floor ELSE next,
                   !.pass = 1 - @]
    /\ UNCHANGED << run_vars, tracer_default, tracer_stream, self_tracer, messages,
                    event_queue >>

\* ingest.py 29 and 35: the loop condition fails and chunks is returned
ChunkReturns ==
    /\ op.name = "chunking"
    /\ op.start >= Len(op.text)
    /\ op' = [op EXCEPT !.name = "chunks_returned"]
    /\ UNCHANGED << run_vars, tracer_default, tracer_stream, self_tracer, messages,
                    event_queue >>

ChunkNext == ChunkLoopPass \/ ChunkReturns

\* The call keeps running: a pass that can be made is made.
ChunkSpec == ChunkInit /\ [][ChunkNext]_vars /\ WF_vars(ChunkNext)

----------------------------------------------------------------------------
(* C40 *)

\* No chunk collected is longer than chunk_size.
ChunksFit ==
    op.name \in {"chunking", "chunks_returned"} =>
        \A i \in 1..Len(op.chunks) : Len(op.chunks[i]) <= op.chunk_size

\* C40: _chunk_text terminates for every text, every chunk_size >= 1 and
\* every overlap >= 0, and every chunk it returns has length at most
\* chunk_size.
C40_ChunkTextTerminates == <>(op.name = "chunks_returned") /\ [] ChunksFit

====
